---- MODULE Spec2Model ----
(***************************************************************************)
(* The ERC-4337 pipeline of the passkey wallet: the use-cases of           *)
(* SmartWalletService (deployWallet, deployWalletAndClaimWelcomeBonus,     *)
(* sendTokens) and of userOperationBuilder (executeUserOperation), each a   *)
(* chain of awaits, run by one or two concurrent invocations against a      *)
(* chain, a fee oracle, a paymaster, a bundler and a passkey signer that    *)
(* answer nondeterministically.  Every await is one step of an invocation.  *)
(*                                                                         *)
(* Representation.  A Hex quantity ('0x1f') is the sequence of its hex      *)
(* digits (<<1, 15>>); '0x' is <<>>.  Byte strings (initCode, callData,     *)
(* paymasterAndData, signature) are sequences of the parts they are made    *)
(* of; '0x' is <<>>.  Fees are counted in gwei.  An optional value is a     *)
(* sequence of length 0 or 1.                                               *)
(***************************************************************************)
EXTENDS Integers, Sequences, FiniteSets, TLC

\* ------------------------------------------------------------- bounds
MaxNonce == 2          \* the entry point's nonce of a sender is capped here
MaxInvocations == 3    \* use-case invocations in one behaviour
MaxCalls == 4          \* calls made to the token in one behaviour
MaxBlock == 17         \* the chain stops mining at this block number
MaxListed == 3         \* the slice takes dispatches while its list is this short
MaxProxyRequests == 3  \* requests the proxy receives in one behaviour

\* ------------------------------------------------------------- universe
Keys == {"k1", "k2"}
Wallets == {"w1", "w2"}
Scenes == {"s1", "s2"}           \* mounts of SendScene
Recipients == {"r1"}
Amounts == {"0.001"}
OneSlot == {1}
TwoSlots == {1, 2}
NoKey == "undefined"
NoScene == "none"
NoCode == "0x"
ContractCode == "0x6080"
EmptyBytes == <<>>               \* the Hex '0x'

\* a fee the oracle did not return (feeData.maxFeePerGas === undefined)
NoData == -1

\* ------------------------------------------------------------- Hex
RECURSIVE HexDigits(_)
HexDigits(n) == IF n < 16 THEN <<n>> ELSE Append(HexDigits(n \div 16), n % 16)

\* viem toHex(bigint): '0x' + value.toString(16)
ToHex(n) == HexDigits(n)

RECURSIVE HexValue(_)
HexValue(h) == IF Len(h) = 0 THEN 0
               ELSE 16 * HexValue(SubSeq(h, 1, Len(h) - 1)) + h[Len(h)]

\* BigInt('0x...') of a bundler answer
BigIntOfHex(h) == HexValue(h)

\* parseGwei(n), in gwei
ParseGwei(n) == n

\* the placeholders of the service: '0xa6d74', '0x117af'
Hex_a6d74 == <<10, 6, 13, 7, 4>>
Hex_117af == <<1, 1, 7, 10, 15>>

\* ------------------------------------------------------------- answers of the environment
FeeQuotes ==
    { [maxFeePerGas |-> NoData, maxPriorityFeePerGas |-> NoData],
      [maxFeePerGas |-> 0,      maxPriorityFeePerGas |-> 0],
      [maxFeePerGas |-> 25,     maxPriorityFeePerGas |-> 2],
      [maxFeePerGas |-> 25,     maxPriorityFeePerGas |-> NoData] }

Sponsorships ==
    { [paymasterAndData |-> <<"paymaster", "A">>,
       callGasLimit |-> ToHex(21000), verificationGasLimit |-> ToHex(100000),
       preVerificationGas |-> ToHex(50000)],
      [paymasterAndData |-> <<"paymaster", "B">>,
       callGasLimit |-> Hex_a6d74, verificationGasLimit |-> ToHex(683381),
       preVerificationGas |-> ToHex(7)] }

GasEstimates ==
    { [callGasLimit |-> ToHex(33333), verificationGasLimit |-> ToHex(200000),
       preVerificationGas |-> ToHex(50001)],
      [callGasLimit |-> ToHex(1), verificationGasLimit |-> ToHex(0),
       preVerificationGas |-> ToHex(199)] }

\* SendScene: the balance in the store when Send is pressed, and the sent
\* amount in the same unit (parseEther)
Available == 3
DesiredAmountWei(amount) == IF amount = "0.001" THEN 1 ELSE 0

\* SendScene's poll: maxAttempts, pollInterval (ms)
MaxAttempts == 20

\* limit: 10 of the screens' getTransfers
TransfersLimit == 10
\* getTransfers without fromBlock reads the last 1000 blocks
LogWindow == 1000
\* the privacy proxy keeps the last 10 requests
RecentRequestsKept == 10
PollInterval == 1000

\* what a balance read of the poll may answer (NoData: the read rejects)
BalanceReads == {NoData, 3, 2, 1}

\* the assertions the authenticator may answer with, named by what their
\* clientDataJSON holds
Assertions == {"assertionA", "assertionNoChallenge", "assertionNoType"}
PromptOutcomes == Assertions \cup {"null", "rejects"}

\* what the environment may answer in a behaviour
WideEnv == [keys |-> Keys, wallets |-> Wallets, fees |-> FeeQuotes,
            sponsorships |-> Sponsorships, estimates |-> GasEstimates,
            scenes |-> Scenes, balances |-> BalanceReads, transfers |-> BOOLEAN]
NarrowEnv ==
    [keys |-> {"k1"}, wallets |-> {"w1"},
     fees |-> {[maxFeePerGas |-> 25, maxPriorityFeePerGas |-> 2]},
     sponsorships |-> {CHOOSE s \in Sponsorships : s.paymasterAndData[2] = "A"},
     estimates |-> {CHOOSE e \in GasEstimates : e.callGasLimit = ToHex(33333)},
     scenes |-> Scenes, balances |-> BalanceReads, transfers |-> BOOLEAN]
\* one SendScene mount, one answer per oracle of the pipeline
ConfirmEnv == [NarrowEnv EXCEPT !.scenes = {"s1"}]

VARIABLES
    code,           \* chain: the code at each wallet address
    chainNonce,     \* entry point: getNonce(sender, 0)
    mempool,        \* bundler: accepted operations not yet handled, as the
                    \* entry point reads them: sender, nonce, initCode
    invocations,    \* use-case invocations started so far
    pc,             \* per invocation slot: the await it is suspended at
    call,           \* per slot: use-case and arguments
    local,          \* per slot: the locals before the operation is built
    userOp,         \* per slot: the operation being built (optional)
    observed,       \* per slot: what the environment answered this invocation
    sponsorRequest, \* per slot: the operation sent to pm_sponsorUserOperation
    hashedOp,       \* per slot: the operation whose hash was read
    sentOp,         \* per slot: the operation sent to eth_sendUserOperation
    prompts,        \* per slot: times the passkey signer was prompted
    signedUserOp,   \* per slot: { ...userOp, signature } (optional)
    failedAt,       \* per slot: the stage whose failure rejected the use-case
    owner,          \* per slot: the SendScene mount awaiting it
    isSending,      \* per SendScene mount: its isSending state
    history,        \* per slot: the stages completed and the JSON-RPC
                    \* requests made by the invocation, in order
    isConfirming,   \* per SendScene mount: its isConfirming state
    showSuccessToast, \* per mount: its showSuccessToast state
    attempts,       \* per mount: the poll's attempts counter
    pollPc,         \* per mount: where its poll is suspended
    clock,          \* per mount: ms the poll has waited
    lastRead,       \* per mount: the balance the last attempt read
    firstSeen,      \* per mount: the first attempt that read the expected balance
    refreshes,      \* per mount: final refreshes requested
    refreshFailed,  \* per mount: the final refresh rejected
    expectedNewBalance, \* per mount: available - desiredAmountWei of its send
    dispatched,     \* per mount: setBalance + prependTransactions pairs its
                    \* poll dispatched to the token slice
    codecIn,        \* what the encoding functions are applied to
    codecOut,       \* what each of them returned (optional, per function)
    coil,           \* the storage of the COIL token contract
    coilCall,       \* the last call made to the token and how it ended
    bonusMints,     \* per account: welcome bonuses minted to it so far
    token,          \* the token slice of the store
    lastAction,     \* the last action dispatched to the token slice
    ledger,         \* chain: the block number and the wallet's Transfer logs
    home,           \* WalletHomeScene: its state, effects and pending reads
    creation,       \* WalletCreationScreen: its state and the await it is at
    app,            \* the app slice, the persisted user and AppInitializer
    privacyMetrics, \* privacy proxy: its metrics object
    proxied,        \* privacy proxy: the requests being handled
    forwarded       \* privacy proxy: the bodies sent upstream, in order

vars == <<code, chainNonce, mempool, invocations, pc, call, local,
          userOp, observed, sponsorRequest, hashedOp, sentOp, prompts,
          signedUserOp, failedAt, owner, isSending, history,
          isConfirming, showSuccessToast, attempts, pollPc, clock,
          lastRead, firstSeen, refreshes, refreshFailed, expectedNewBalance,
          dispatched, codecIn, codecOut, coil, coilCall, bonusMints,
          token, lastAction, ledger, home, creation, app, privacyMetrics, proxied,
          forwarded>>

\* the token slice and the home screen that fills it
tokenVars == <<token, lastAction, ledger, home>>

\* wallet creation and the app's start
creationVars == <<creation, app>>

\* the privacy proxy
proxyVars == <<privacyMetrics, proxied, forwarded>>

\* the screens and the proxy
appVars == <<token, lastAction, ledger, home, creation, app, privacyMetrics,
             proxied, forwarded>>

\* the token contract and the calls made to it
coilVars == <<coil, coilCall, bonusMints>>

\* what the token slice and the home screen leave alone
exceptTokenVars == <<code, chainNonce, mempool, invocations, pc, call, local,
                     userOp, observed, sponsorRequest, hashedOp, sentOp,
                     prompts, signedUserOp, failedAt, owner, isSending,
                     history, isConfirming, showSuccessToast, attempts, pollPc,
                     clock, lastRead, firstSeen, refreshes, refreshFailed,
                     expectedNewBalance, dispatched, codecIn, codecOut, coil,
                     coilCall, bonusMints, creation, app, privacyMetrics,
                     proxied, forwarded>>

\* the arguments and results of the encoding functions
codecVars == <<codecIn, codecOut>>

\* the state of the confirmation poll of each mount
pollVars == <<isConfirming, showSuccessToast, attempts, pollPc, clock,
              lastRead, firstSeen, refreshes, refreshFailed, expectedNewBalance,
              dispatched>>

\* the state of the invocations
pipelineVars == <<code, chainNonce, mempool, invocations, pc, call, local,
                  userOp, observed, sponsorRequest, hashedOp, sentOp, prompts,
                  signedUserOp, failedAt, owner, isSending, history>>

chainVars == <<code, chainNonce, mempool>>

ServiceUseCases == {"deployWallet", "deployWalletAndClaimWelcomeBonus", "sendTokens"}
UseCases == ServiceUseCases \cup {"executeUserOperation"}

NoCall == [usecase |-> "none", publicKey |-> NoKey, walletAddress |-> "none",
           to |-> "none", amount |-> "none"]
NoLocal == [walletAddress |-> "none", deployed |-> <<>>, initCode |-> EmptyBytes,
            callData |-> EmptyBytes, nonce |-> <<>>]
NoObserved == [codeAtInit |-> <<>>, nonce |-> <<>>, fees |-> <<>>,
               sponsorship |-> <<>>, estimate |-> <<>>, prompt |-> <<>>,
               gasPath |-> "none"]

PipelineInit ==
    /\ code \in [Wallets -> {NoCode, ContractCode}]
    /\ chainNonce = [w \in Wallets |-> 0]
    /\ mempool = {}
    /\ invocations = 0
    /\ pc = [p \in TwoSlots |-> "idle"]
    /\ call = [p \in TwoSlots |-> NoCall]
    /\ local = [p \in TwoSlots |-> NoLocal]
    /\ userOp = [p \in TwoSlots |-> <<>>]
    /\ observed = [p \in TwoSlots |-> NoObserved]
    /\ sponsorRequest = [p \in TwoSlots |-> <<>>]
    /\ hashedOp = [p \in TwoSlots |-> <<>>]
    /\ sentOp = [p \in TwoSlots |-> <<>>]
    /\ prompts = [p \in TwoSlots |-> 0]
    /\ signedUserOp = [p \in TwoSlots |-> <<>>]
    /\ failedAt = [p \in TwoSlots |-> "none"]
    /\ owner = [p \in TwoSlots |-> NoScene]
    /\ isSending = [s \in Scenes |-> FALSE]
    /\ history = [p \in TwoSlots |-> <<>>]
    /\ isConfirming = [s \in Scenes |-> FALSE]
    /\ showSuccessToast = [s \in Scenes |-> FALSE]
    /\ attempts = [s \in Scenes |-> 0]
    /\ pollPc = [s \in Scenes |-> "idle"]
    /\ clock = [s \in Scenes |-> 0]
    /\ lastRead = [s \in Scenes |-> NoData]
    /\ firstSeen = [s \in Scenes |-> 0]
    /\ refreshes = [s \in Scenes |-> 0]
    /\ refreshFailed = [s \in Scenes |-> FALSE]
    /\ expectedNewBalance = [s \in Scenes |-> 0]
    /\ dispatched = [s \in Scenes |-> 0]

\* ------------------------------------------------------------- COIL token
\* Amounts are counted in whole tokens (10 ** 18 base units each): every
\* amount of the contract and of its callers here is a multiple of a token.
Users == {"user1", "user2"}
\* "others" holds what accounts outside Users were minted before
Holders == Users \cup {"others"}
ZeroAddress == "address(0)"
ZeroHash == "bytes32(0)"
Roles == {"DEFAULT_ADMIN_ROLE", "MINTER_ROLE", "ORGS_DISTRIBUTOR_ROLE",
          "PAUSER_ROLE", "COUPON_CREATOR_ROLE"}
CouponCodes == {"GET50", "INVALID"}

WELCOME_BONUS_ALLOCATION == 300000000
ORGS_ALLOCATION == 200000000
GOVERNANCE_ALLOCATION == 500000000
WELCOME_BONUS_AMOUNT == 101
Cap == 1000000000

\* keccak256(abi.encodePacked(couponCode)): one hash per code, never zero
Keccak256(couponCode) ==
    IF couponCode = "GET50" THEN "keccak256(GET50)" ELSE "keccak256(INVALID)"

\* the storage the constructor leaves, welcome bonuses already claimed by
\* accounts outside Users apart
Constructed(claimedByOthers) ==
    [paused |-> FALSE,
     roles |-> [r \in Roles |->
                  CASE r = "DEFAULT_ADMIN_ROLE" -> {"owner"}
                    [] r = "MINTER_ROLE" -> {"minter"}
                    [] r = "ORGS_DISTRIBUTOR_ROLE" -> {"orgsDistributor"}
                    [] r = "PAUSER_ROLE" -> {"pauser"}
                    [] OTHER -> {"couponCreator"}],
     balances |-> [h \in Holders |-> IF h = "others" THEN claimedByOthers ELSE 0],
     totalSupply |-> claimedByOthers,
     welcomeBonusDistributed |-> claimedByOthers,
     orgsDistributed |-> 0,
     governanceDistributed |-> 0,
     hasReceivedWelcomeBonus |-> [h \in Holders |-> h = "others"],
     coupons |-> [h \in {Keccak256(cc) : cc \in CouponCodes} |-> 0]]

NoCoilCall == [count |-> 0, fn |-> "none", sender |-> "none", to |-> "none",
               amount |-> 0, code |-> "none", result |-> "none"]

\* the token as the wallet's use-cases find it
CoilConstructed ==
    /\ coil = Constructed(0)
    /\ coilCall = NoCoilCall
    /\ bonusMints = [u \in Users |-> 0]

WhenNotPausedOff(c) == TRUE
\* modifier whenNotPaused
WhenNotPaused(c) == ~c.paused

OnlyRoleAnyone(c, role, account) == TRUE
\* modifier onlyRole(role): hasRole(role, msg.sender)
OnlyRole(c, role, account) == account \in c.roles[role]

WithinAllocationOrOneMore(distributed, allocation) == distributed <= allocation + 1
\* require(distributed <= ALLOCATION)
WithinAllocation(distributed, allocation) == distributed <= allocation

BonusClaimedNever(c, account) == FALSE
\* hasReceivedWelcomeBonus[msg.sender]
BonusClaimed(c, account) == c.hasReceivedWelcomeBonus[account]

CouponAmountOfValidCode(c, couponCode) == c.coupons[Keccak256("GET50")]
\* coupons[keccak256(abi.encodePacked(couponCode))]
CouponAmount(c, couponCode) == c.coupons[Keccak256(couponCode)]

\* _update(from, to, amount) of COIL over ERC20Capped over ERC20: the result
\* and the storage it leaves when it does not revert.  from = ZeroAddress
\* is a mint.
Update(c, from, to, amount) ==
    IF ~WhenNotPaused(c) THEN [result |-> "EnforcedPause", storage |-> c]
    ELSE IF from # ZeroAddress /\ c.balances[from] < amount
    THEN [result |-> "ERC20InsufficientBalance", storage |-> c]
    ELSE IF from = ZeroAddress /\ c.totalSupply + amount > Cap
    THEN [result |-> "ERC20ExceededCap", storage |-> c]
    ELSE [result |-> "ok",
          storage |->
            [c EXCEPT !.balances =
                        [h \in Holders |->
                           c.balances[h] - (IF h = from THEN amount ELSE 0)
                                         + (IF h = to THEN amount ELSE 0)],
                      !.totalSupply =
                        IF from = ZeroAddress THEN @ + amount ELSE @]]

\* one external call: a revert leaves the storage as it was
CoilCalled(fn, sender, to, amount, couponCode, outcome) ==
    /\ coilCall.count < MaxCalls
    /\ coilCall' = [count |-> coilCall.count + 1, fn |-> fn, sender |-> sender,
                    to |-> to, amount |-> amount, code |-> couponCode,
                    result |-> outcome.result]
    /\ coil' = IF outcome.result = "ok" THEN outcome.storage ELSE coil
    /\ bonusMints' = IF fn = "distributeWelcomeBonus" /\ outcome.result = "ok"
                     THEN [bonusMints EXCEPT ![sender] = @ + 1]
                     ELSE bonusMints
    /\ UNCHANGED <<pipelineVars, pollVars, codecVars, appVars>>

DistributeWelcomeBonus(sender) ==
    CoilCalled("distributeWelcomeBonus", sender, "none", 0, "none",
      IF ~WhenNotPaused(coil)
      THEN [result |-> "EnforcedPause", storage |-> coil]
      ELSE IF BonusClaimed(coil, sender)
      THEN [result |-> "User already received welcome bonus", storage |-> coil]
      ELSE IF ~WithinAllocation(coil.welcomeBonusDistributed + WELCOME_BONUS_AMOUNT,
                                WELCOME_BONUS_ALLOCATION)
      THEN [result |-> "Welcome bonus allocation exceeded", storage |-> coil]
      ELSE Update([coil EXCEPT !.hasReceivedWelcomeBonus[sender] = TRUE,
                               !.welcomeBonusDistributed = @ + WELCOME_BONUS_AMOUNT],
                  ZeroAddress, sender, WELCOME_BONUS_AMOUNT))

DistributeOrgs(sender, to, amount) ==
    CoilCalled("distributeOrgs", sender, to, amount, "none",
      IF ~OnlyRole(coil, "ORGS_DISTRIBUTOR_ROLE", sender)
      THEN [result |-> "AccessControlUnauthorizedAccount", storage |-> coil]
      ELSE IF ~WhenNotPaused(coil)
      THEN [result |-> "EnforcedPause", storage |-> coil]
      ELSE IF to = ZeroAddress
      THEN [result |-> "Invalid address", storage |-> coil]
      ELSE IF amount = 0
      THEN [result |-> "Invalid amount", storage |-> coil]
      ELSE IF ~WithinAllocation(coil.orgsDistributed + amount, ORGS_ALLOCATION)
      THEN [result |-> "Orgs allocation exceeded", storage |-> coil]
      ELSE Update([coil EXCEPT !.orgsDistributed = @ + amount],
                  ZeroAddress, to, amount))

DistributeGovernance(sender, to, amount) ==
    CoilCalled("distributeGovernance", sender, to, amount, "none",
      IF ~OnlyRole(coil, "MINTER_ROLE", sender)
      THEN [result |-> "AccessControlUnauthorizedAccount", storage |-> coil]
      ELSE IF ~WhenNotPaused(coil)
      THEN [result |-> "EnforcedPause", storage |-> coil]
      ELSE IF to = ZeroAddress
      THEN [result |-> "Invalid address", storage |-> coil]
      ELSE IF amount = 0
      THEN [result |-> "Invalid amount", storage |-> coil]
      ELSE IF ~WithinAllocation(coil.governanceDistributed + amount,
                                GOVERNANCE_ALLOCATION)
      THEN [result |-> "Governance allocation exceeded", storage |-> coil]
      ELSE Update([coil EXCEPT !.governanceDistributed = @ + amount],
                  ZeroAddress, to, amount))

UpdateCoupon(sender, couponHash, amount) ==
    CoilCalled("updateCoupon", sender, "none", amount,
               couponHash,
      IF ~OnlyRole(coil, "COUPON_CREATOR_ROLE", sender)
      THEN [result |-> "AccessControlUnauthorizedAccount", storage |-> coil]
      ELSE IF couponHash = ZeroHash
      THEN [result |-> "Invalid coupon", storage |-> coil]
      ELSE [result |-> "ok",
            storage |-> [coil EXCEPT !.coupons[couponHash] = amount]])

Redeem(sender, couponCode) ==
    CoilCalled("redeem", sender, "none", 0, couponCode,
      IF ~WhenNotPaused(coil)
      THEN [result |-> "EnforcedPause", storage |-> coil]
      ELSE IF CouponAmount(coil, couponCode) = 0
      THEN [result |-> "Invalid coupon", storage |-> coil]
      ELSE Update(coil, ZeroAddress, sender, CouponAmount(coil, couponCode)))

Pause(sender) ==
    CoilCalled("pause", sender, "none", 0, "none",
      IF ~OnlyRole(coil, "PAUSER_ROLE", sender)
      THEN [result |-> "AccessControlUnauthorizedAccount", storage |-> coil]
      ELSE IF ~WhenNotPaused(coil)
      THEN [result |-> "EnforcedPause", storage |-> coil]
      ELSE [result |-> "ok", storage |-> [coil EXCEPT !.paused = TRUE]])

Unpause(sender) ==
    CoilCalled("unpause", sender, "none", 0, "none",
      IF ~OnlyRole(coil, "PAUSER_ROLE", sender)
      THEN [result |-> "AccessControlUnauthorizedAccount", storage |-> coil]
      ELSE IF ~coil.paused
      THEN [result |-> "ExpectedPause", storage |-> coil]
      ELSE [result |-> "ok", storage |-> [coil EXCEPT !.paused = FALSE]])

\* ERC20.transfer(to, value)
Transfer(sender, to, amount) ==
    CoilCalled("transfer", sender, to, amount, "none",
      IF to = ZeroAddress
      THEN [result |-> "ERC20InvalidReceiver", storage |-> coil]
      ELSE Update(coil, sender, to, amount))

\* AccessControl.grantRole(role, account): the admin of every role is
\* DEFAULT_ADMIN_ROLE
GrantRole(sender, role, account) ==
    CoilCalled("grantRole", sender, account, 0, role,
      IF ~OnlyRole(coil, "DEFAULT_ADMIN_ROLE", sender)
      THEN [result |-> "AccessControlUnauthorizedAccount", storage |-> coil]
      ELSE [result |-> "ok",
            storage |-> [coil EXCEPT !.roles[role] = @ \cup {account}]])

\* AccessControl.revokeRole(role, account)
RevokeRole(sender, role, account) ==
    CoilCalled("revokeRole", sender, account, 0, role,
      IF ~OnlyRole(coil, "DEFAULT_ADMIN_ROLE", sender)
      THEN [result |-> "AccessControlUnauthorizedAccount", storage |-> coil]
      ELSE [result |-> "ok",
            storage |-> [coil EXCEPT !.roles[role] = @ \ {account}]])

\* no encoding function has been applied
NoCodecOutput == [locations |-> <<>>, parsed |-> <<>>, formatted |-> <<>>,
                  challenge |-> <<>>, challengeBytes |-> <<>>]

\* ------------------------------------------------------------- token slice
\* lastFetchedBlock: null, or a block number as Hex
NoBlock == <<>>

\* initialState of the token slice
InitialTokenState ==
    [balance |-> 0, balanceRaw |-> ToHex(0), transactions |-> <<>>,
     lastFetchedBlock |-> NoBlock, isLoadingBalance |-> FALSE,
     isLoadingTransactions |-> FALSE, isLoadingMore |-> FALSE,
     error |-> "null"]

NoAction == [type |-> "@@INIT", payload |-> <<>>]

SetBalance(state, payload) ==
    [state EXCEPT !.balance = payload.balance, !.balanceRaw = payload.balanceRaw]

SetTransactions(state, payload) ==
    [state EXCEPT !.transactions = payload,
                  !.lastFetchedBlock =
                      IF Len(payload) > 0 THEN payload[1].blockNumber ELSE @]

AppendTransactions(state, payload) ==
    [state EXCEPT !.transactions = @ \o payload]

PrependTransactionsBehind(state, payload) ==
    LET existingHashes ==
            {state.transactions[i].transactionHash :
                i \in 1..Len(state.transactions)}
        newTransactions ==
            SelectSeq(payload, LAMBDA tx : tx.transactionHash \notin existingHashes)
    IN [state EXCEPT !.transactions = @ \o newTransactions,
                     !.lastFetchedBlock =
                         IF Len(newTransactions) > 0
                         THEN newTransactions[1].blockNumber ELSE @]

\* only the transactions that are not in the list yet, before the list
PrependTransactions(state, payload) ==
    LET existingHashes ==
            {state.transactions[i].transactionHash :
                i \in 1..Len(state.transactions)}
        newTransactions ==
            SelectSeq(payload, LAMBDA tx : tx.transactionHash \notin existingHashes)
    IN [state EXCEPT !.transactions = newTransactions \o @,
                     !.lastFetchedBlock =
                         IF Len(newTransactions) > 0
                         THEN newTransactions[1].blockNumber ELSE @]

SetLastFetchedBlock(state, payload) == [state EXCEPT !.lastFetchedBlock = payload]

\* the reducer of the slice
TokenReducer(state, action) ==
    CASE action.type = "setBalance" -> SetBalance(state, action.payload)
      [] action.type = "setTransactions" -> SetTransactions(state, action.payload)
      [] action.type = "appendTransactions" ->
            AppendTransactions(state, action.payload)
      [] action.type = "prependTransactions" ->
            PrependTransactions(state, action.payload)
      [] action.type = "setLastFetchedBlock" ->
            SetLastFetchedBlock(state, action.payload)
      [] action.type = "setLoadingBalance" ->
            [state EXCEPT !.isLoadingBalance = action.payload]
      [] action.type = "setLoadingTransactions" ->
            [state EXCEPT !.isLoadingTransactions = action.payload]
      [] action.type = "setLoadingMore" ->
            [state EXCEPT !.isLoadingMore = action.payload]
      [] action.type = "setError" -> [state EXCEPT !.error = action.payload]
      [] action.type = "reset" -> InitialTokenState
      [] OTHER -> state

\* the actions dispatched in one step, reduced in order
RECURSIVE Reduced(_, _)
Reduced(state, actions) ==
    IF Len(actions) = 0 THEN state
    ELSE Reduced(TokenReducer(state, Head(actions)), Tail(actions))

\* tokenDispatch(...), once or more in one synchronous run
Dispatch(actions) ==
    /\ token' = Reduced(token, actions)
    /\ lastAction' = IF Len(actions) = 0 THEN lastAction
                     ELSE actions[Len(actions)]

\* ------------------------------------------------------------- token reads
\* a Transfer log of the token that names the wallet
TransferLog(blockNumber, direction) ==
    [transactionHash |-> <<"tx", blockNumber>>, blockNumber |-> blockNumber,
     direction |-> direction]

\* publicClient.getLogs with args.from (sent) or args.to (received): a
\* transfer of the wallet to itself matches both
GetLogs(l, direction, fromBlock, toBlock) ==
    SelectSeq(l.transfers,
              LAMBDA log : /\ log.direction \in {direction, "self"}
                           /\ fromBlock <= log.blockNumber
                           /\ log.blockNumber <= toBlock)

\* Array.from(new Map(allLogs.map(log => [log.transactionHash, log])).values())
RECURSIVE UniqueLogs(_)
UniqueLogs(allLogs) ==
    IF Len(allLogs) = 0 THEN <<>>
    ELSE LET rest == UniqueLogs(SubSeq(allLogs, 1, Len(allLogs) - 1))
             last == allLogs[Len(allLogs)]
             at == {i \in 1..Len(rest) :
                       rest[i].transactionHash = last.transactionHash}
         IN IF at = {} THEN Append(rest, last)
            ELSE [i \in 1..Len(rest) |-> IF i \in at THEN last ELSE rest[i]]

\* uniqueLogs.sort((a, b) => Number(b.blockNumber - a.blockNumber)): stable
RECURSIVE SortedDescending(_)
SortedDescending(logs) ==
    IF Len(logs) = 0 THEN <<>>
    ELSE LET rest == SortedDescending(SubSeq(logs, 1, Len(logs) - 1))
             last == logs[Len(logs)]
             before == SelectSeq(rest, LAMBDA log : log.blockNumber >= last.blockNumber)
             after == SelectSeq(rest, LAMBDA log : log.blockNumber < last.blockNumber)
         IN before \o <<last>> \o after

\* tokenService.getTransfers(address, { fromBlock, toBlock, limit }): NoData
\* stands for an option left out
GetTransfers(l, fromBlock, toBlock, limit) ==
    LET latestBlock == IF toBlock = NoData THEN l.currentBlock ELSE toBlock
        calculatedFromBlock ==
            IF fromBlock = NoData THEN latestBlock - LogWindow ELSE fromBlock
        allLogs == GetLogs(l, "sent", calculatedFromBlock, latestBlock)
                   \o GetLogs(l, "received", calculatedFromBlock, latestBlock)
        sorted == SortedDescending(UniqueLogs(allLogs))
        limitedLogs == IF limit > 0 /\ Len(sorted) > limit
                       THEN SubSeq(sorted, 1, limit) ELSE sorted
    IN [i \in 1..Len(limitedLogs) |->
          [transactionHash |-> limitedLogs[i].transactionHash,
           blockNumber |-> ToHex(limitedLogs[i].blockNumber)]]

\* the balance the chain answers with: the welcome bonus, not spent yet
ChainBalances == {WELCOME_BONUS_AMOUNT}

\* getBalance and getBalanceRaw of one read
BalancePayload(b) == [balance |-> b, balanceRaw |-> ToHex(b)]

\* ------------------------------------------------------------- home screen
IdlePoll == [pc |-> "idle", isMounted |-> FALSE, lastFetchedBlock |-> NoBlock,
             currentBlock |-> NoData, fromBlock |-> NoData, toBlock |-> NoData]

\* the store and the chain before WalletHomeScene is mounted
HomeInit ==
    /\ token = InitialTokenState
    /\ lastAction = NoAction
    /\ ledger = [currentBlock |-> 14, transfers |-> <<>>]
    /\ home = [mounted |-> FALSE, isInitialLoad |-> TRUE, fetchPc |-> "idle",
               closureBlock |-> NoBlock, poll |-> IdlePoll]

\* the chain mines a block, with or without a transfer of the wallet in it
MineBlock(direction) ==
    /\ ledger.currentBlock < MaxBlock
    /\ ledger' = [currentBlock |-> ledger.currentBlock + 1,
                  transfers |->
                      IF direction = "none" THEN ledger.transfers
                      ELSE Append(ledger.transfers,
                                  TransferLog(ledger.currentBlock + 1, direction))]
    /\ UNCHANGED <<token, lastAction, home, exceptTokenVars>>

\* WalletHomeScene is mounted: the effect of the initial load calls
\* fetchBalanceAndTransactions, which runs to its first await; the polling
\* effect sets its interval
HomeMounts ==
    /\ ~home.mounted
    /\ home' = [home EXCEPT !.mounted = TRUE, !.fetchPc = "getBalance",
                            !.closureBlock = token.lastFetchedBlock]
    /\ Dispatch(<<[type |-> "setLoadingBalance", payload |-> TRUE],
                  [type |-> "setLoadingTransactions", payload |-> TRUE]>>)
    /\ UNCHANGED <<ledger, exceptTokenVars>>

\* catch and finally of fetchBalanceAndTransactions, or finally alone
FetchSettles(rejected) ==
    (IF rejected THEN <<[type |-> "setError", payload |-> "error.message"]>>
     ELSE <<>>)
    \o <<[type |-> "setLoadingBalance", payload |-> FALSE],
         [type |-> "setLoadingTransactions", payload |-> FALSE]>>

\* fetchBalanceAndTransactions: getBalance and getBalanceRaw settle
FetchBalanceStep(resolved, balance) ==
    /\ home.fetchPc = "getBalance"
    /\ IF resolved
       THEN /\ Dispatch(<<[type |-> "setBalance",
                           payload |-> BalancePayload(balance)]>>)
            /\ home' = [home EXCEPT !.fetchPc = "getTransfers"]
       ELSE /\ Dispatch(FetchSettles(TRUE))
            /\ home' = [home EXCEPT !.fetchPc = "done", !.isInitialLoad = FALSE]
    /\ UNCHANGED <<ledger, exceptTokenVars>>

\* fetchBalanceAndTransactions: getTransfers({ limit: 10 }) settles
FetchTransfersStep(resolved) ==
    /\ home.fetchPc = "getTransfers"
    /\ Dispatch(IF resolved
                THEN <<[type |-> "setTransactions",
                        payload |-> GetTransfers(ledger, NoData, NoData,
                                                 TransfersLimit)]>>
                     \o FetchSettles(FALSE)
                ELSE FetchSettles(TRUE))
    /\ home' = [home EXCEPT !.fetchPc = "done", !.isInitialLoad = FALSE]
    /\ UNCHANGED <<ledger, exceptTokenVars>>

\* a render with another tokenSlice.lastFetchedBlock: the cleanup of the
\* polling effect (isMounted = false; clearInterval), then the effect again
PollEffectReruns ==
    /\ home.mounted
    /\ home.closureBlock /= token.lastFetchedBlock
    /\ home' = [home EXCEPT !.closureBlock = token.lastFetchedBlock,
                            !.poll.isMounted = FALSE]
    /\ UNCHANGED <<token, lastAction, ledger, exceptTokenVars>>

\* the interval fires: pollBalanceAndTransactions to its first await
PollTick ==
    /\ home.mounted
    /\ home.poll.pc = "idle"
    /\ home' = [home EXCEPT !.poll = [IdlePoll EXCEPT
                    !.pc = "getBalance", !.isMounted = TRUE,
                    !.lastFetchedBlock = home.closureBlock]]
    /\ UNCHANGED <<token, lastAction, ledger, exceptTokenVars>>

\* pollBalanceAndTransactions: getBalance and getBalanceRaw settle
PollBalanceStep(resolved, balance) ==
    /\ home.poll.pc = "getBalance"
    /\ Dispatch(IF resolved /\ home.poll.isMounted
                THEN <<[type |-> "setBalance", payload |-> BalancePayload(balance)]>>
                ELSE <<>>)
    /\ home' = IF resolved THEN [home EXCEPT !.poll.pc = "getCurrentBlock"]
               ELSE [home EXCEPT !.poll = IdlePoll]
    /\ UNCHANGED <<ledger, exceptTokenVars>>

PollRangeFromLastBlock(lastBlock, currentBlock) == <<lastBlock, currentBlock>>
\* fromBlock = lastBlock + 1n; toBlock = currentBlock
PollRange(lastBlock, currentBlock) == <<lastBlock + 1, currentBlock>>

\* pollBalanceAndTransactions: getCurrentBlock settles
PollCurrentBlockStep(resolved) ==
    /\ home.poll.pc = "getCurrentBlock"
    /\ LET currentBlock == ledger.currentBlock
           lastBlock == IF home.poll.lastFetchedBlock /= NoBlock
                        THEN HexValue(home.poll.lastFetchedBlock)
                        ELSE currentBlock
       IN home' = IF resolved /\ currentBlock > lastBlock
                  THEN [home EXCEPT
                          !.poll.pc = "getTransfers",
                          !.poll.currentBlock = currentBlock,
                          !.poll.fromBlock = PollRange(lastBlock, currentBlock)[1],
                          !.poll.toBlock = PollRange(lastBlock, currentBlock)[2]]
                  ELSE [home EXCEPT !.poll = IdlePoll]
    /\ UNCHANGED <<token, lastAction, ledger, exceptTokenVars>>

\* pollBalanceAndTransactions: getTransfers({ fromBlock, toBlock, limit: 10 })
\* settles
PollTransfersStep(resolved) ==
    /\ home.poll.pc = "getTransfers"
    /\ LET transfers == GetTransfers(ledger, home.poll.fromBlock,
                                     home.poll.toBlock, TransfersLimit)
       IN Dispatch(IF ~resolved \/ ~home.poll.isMounted THEN <<>>
                   ELSE IF Len(transfers) > 0
                   THEN <<[type |-> "prependTransactions", payload |-> transfers]>>
                   ELSE <<[type |-> "setLastFetchedBlock",
                           payload |-> ToHex(home.poll.currentBlock)]>>)
    /\ home' = [home EXCEPT !.poll = IdlePoll]
    /\ UNCHANGED <<ledger, exceptTokenVars>>

\* SendScene, pushed over the home screen: the reads of a confirmation
\* attempt or of the refresh after the last one resolved
ConfirmationUpdate(balance) ==
    /\ home.mounted
    /\ Dispatch(<<[type |-> "setBalance", payload |-> BalancePayload(balance)],
                  [type |-> "prependTransactions",
                   payload |-> GetTransfers(ledger, NoData, NoData,
                                            TransfersLimit)]>>)
    /\ UNCHANGED <<ledger, home, exceptTokenVars>>

\* ------------------------------------------------------------- any dispatch
\* entries of the list, as getTransfers formats them
SliceEntries ==
    {[transactionHash |-> <<"tx", b>>, blockNumber |-> ToHex(b)] : b \in 14..16}

\* the payloads free of duplicates, up to two entries
DuplicateFreePayloads ==
    {<<>>} \cup {<<e>> : e \in SliceEntries}
           \cup {<<e, f>> : <<e, f>> \in {x \in SliceEntries \X SliceEntries :
                                             x[1] /= x[2]}}

\* any component dispatches one action of the slice
DispatchAction(type, payload) ==
    /\ Len(token.transactions) <= MaxListed
    /\ Dispatch(<<[type |-> type, payload |-> payload]>>)
    /\ UNCHANGED <<ledger, home, exceptTokenVars>>

\* ------------------------------------------------------------- wallet creation
NoUser == [passkeyRawId |-> "none", walletAddress |-> "none"]

\* WalletCreationScreen as mounted, the app slice and the storage of a first
\* start, and useAppInitializer at the await of its effect
CreationInit ==
    /\ creation = [pc |-> "idle", isCreating |-> FALSE, publicKey |-> NoKey,
                   rawId |-> "none", walletAddress |-> "none", steps |-> <<>>,
                   alerts |-> 0, route |-> "/"]
    /\ app = [persisted |-> NoUser, user |-> NoUser, loggedIn |-> FALSE,
              isLoading |-> TRUE, loadPc |-> "getPersistData"]

\* ------------------------------------------------------------- privacy proxy
ProxySlots == {1, 2}

\* privacyMetrics as the module constructs it, after `served` bundler
\* requests went through at the times 1..served
Metrics(served) ==
    [totalRequests |-> served, bundlerRequests |-> served,
     paymasterRequests |-> 0, torEnabled |-> TRUE, errors |-> 0,
     recentRequests |->
        [i \in 1..(IF served > RecentRequestsKept THEN RecentRequestsKept
                   ELSE served) |->
           [timestamp |-> served + 1 - i, type |-> "bundler",
            exitIP |-> "exitIP"]]]

NoRequest == [pc |-> "idle", type |-> "none", body |-> "none",
              exitIP |-> "unknown", status |-> 0]

ProxyInit ==
    /\ privacyMetrics = Metrics(0)
    /\ proxied = [now |-> 0, received |-> 0,
                  requests |-> [slot \in ProxySlots |-> NoRequest]]
    /\ forwarded = {}

\* the bodies express.json() hands to the routes
Bodies ==
    {[method |-> "eth_sendUserOperation", params |-> "[userOp, entryPoint]"],
     [method |-> "pm_sponsorUserOperation", params |-> "undefined"],
     [method |-> "undefined", params |-> "[userOp, entryPoint]"]}

\* !value of JavaScript, for the values of Bodies
Falsy(value) == value \in {"undefined", "null", ""}

\* the negation of !rpcRequest.method || !rpcRequest.params
HasMethodAndParams(rpcRequest) ==
    ~(Falsy(rpcRequest.method) \/ Falsy(rpcRequest.params))

\* pimlicoUrl of the route
PimlicoUrl(requestType) ==
    IF requestType = "bundler" THEN "https://api.pimlico.io/v1/sepolia/rpc"
    ELSE "https://api.pimlico.io/v2/sepolia/rpc"

\* POST /rpc/bundler or /rpc/paymaster: the route counts the request, answers
\* 400 or calls proxyThroughTor, which runs to the await of its exit-IP read
ReceivePost(slot, requestType, rpcRequest) ==
    /\ proxied.received < MaxProxyRequests
    /\ proxied.requests[slot].pc \in {"idle", "answered"}
    /\ privacyMetrics' =
          IF requestType = "bundler"
          THEN [privacyMetrics EXCEPT !.bundlerRequests = @ + 1]
          ELSE [privacyMetrics EXCEPT !.paymasterRequests = @ + 1]
    /\ proxied' = [proxied EXCEPT
          !.received = @ + 1,
          !.requests[slot] =
              IF HasMethodAndParams(rpcRequest)
              THEN [NoRequest EXCEPT !.pc = "ipCheck", !.type = requestType,
                                     !.body = rpcRequest]
              ELSE [NoRequest EXCEPT !.pc = "answered", !.type = requestType,
                                     !.body = rpcRequest, !.status = 400]]
    /\ UNCHANGED <<forwarded, pipelineVars, pollVars, codecVars, coilVars,
                   tokenVars, creationVars>>

\* proxyThroughTor: the exit-IP read settles either way, then the request is
\* sent to Pimlico through Tor
IpCheckStep(slot, resolved) ==
    /\ proxied.requests[slot].pc = "ipCheck"
    /\ proxied' = [proxied EXCEPT
          !.requests[slot].pc = "fetch",
          !.requests[slot].exitIP = IF resolved THEN "exitIP" ELSE "unknown"]
    /\ forwarded' = forwarded \cup
          {[url |-> PimlicoUrl(proxied.requests[slot].type),
            body |-> proxied.requests[slot].body]}
    /\ UNCHANGED <<privacyMetrics, pipelineVars, pollVars, codecVars, coilVars,
                   tokenVars, creationVars>>

\* proxyThroughTor: fetch and response.json() settle; rejected, the catch
\* counts an error and the route answers 500
UpstreamStep(slot, resolved) ==
    /\ proxied.requests[slot].pc = "fetch"
    /\ IF resolved
       THEN /\ proxied' = [proxied EXCEPT !.requests[slot].pc = "randomDelay"]
            /\ UNCHANGED privacyMetrics
       ELSE /\ proxied' = [proxied EXCEPT !.requests[slot].pc = "answered",
                                          !.requests[slot].status = 500]
            /\ privacyMetrics' = [privacyMetrics EXCEPT !.errors = @ + 1]
    /\ UNCHANGED <<forwarded, pipelineVars, pollVars, codecVars, coilVars,
                   tokenVars, creationVars>>

RecentPushed(recentRequests, entry) ==
    LET pushed == Append(recentRequests, entry)
    IN IF Len(pushed) > RecentRequestsKept THEN Tail(pushed) ELSE pushed

\* recentRequests.unshift(entry); if (length > 10) recentRequests.pop()
RecentUnshifted(recentRequests, entry) ==
    LET unshifted == <<entry>> \o recentRequests
    IN IF Len(unshifted) > RecentRequestsKept
       THEN SubSeq(unshifted, 1, Len(unshifted) - 1) ELSE unshifted

\* proxyThroughTor: the random delay is over, `elapsed` after the last entry;
\* the metrics are updated and the route answers with Pimlico's data
RandomDelayStep(slot, elapsed) ==
    /\ proxied.requests[slot].pc = "randomDelay"
    /\ proxied' = [proxied EXCEPT !.now = @ + elapsed,
                                  !.requests[slot].pc = "answered",
                                  !.requests[slot].status = 200]
    /\ privacyMetrics' = [privacyMetrics EXCEPT
          !.totalRequests = @ + 1,
          !.recentRequests =
              RecentUnshifted(@, [timestamp |-> proxied.now + elapsed,
                                  type |-> proxied.requests[slot].type,
                                  exitIP |-> proxied.requests[slot].exitIP])]
    /\ UNCHANGED <<forwarded, pipelineVars, pollVars, codecVars, coilVars,
                   tokenVars, creationVars>>

\* the screens and the proxy before anything ran
ScreensInit == HomeInit /\ CreationInit /\ ProxyInit

Init ==
    /\ PipelineInit
    /\ codecIn = [assertion |-> "assertionA", signatureBytes |-> <<>>,
                  userOpHash |-> <<>>]
    /\ codecOut = NoCodecOutput
    /\ CoilConstructed
    /\ ScreensInit

\* ------------------------------------------------------------- chain reads
\* a variant whose answer changes once the first wallet has code
GetSmartWalletAddressByCode(publicKey) ==
    IF (publicKey = "k1") = (code["w1"] = NoCode) THEN "w1" ELSE "w2"

\* factory.getAddress(publicKey): deterministic in the key
GetSmartWalletAddress(publicKey) == IF publicKey = "k1" THEN "w1" ELSE "w2"

\* publicClient.getCode: undefined for an address without code
GetCode(walletAddress) ==
    IF code[walletAddress] = NoCode THEN "undefined" ELSE code[walletAddress]

IsWalletDeployed(walletAddress) ==
    GetCode(walletAddress) /= "undefined" /\ GetCode(walletAddress) /= "0x"

\* a variant that assumes a fresh sender instead of reading the entry point
GetNonceAssumedZero(walletAddress) == 0

\* entryPoint.getNonce(walletAddress, 0)
GetNonce(walletAddress) == chainNonce[walletAddress]

\* ------------------------------------------------------------- encoders
GenerateInitCode(publicKey) == <<"factoryAddress", "createAccount", publicKey>>

ParseEther(amount) == <<"wei", amount>>

GenerateERC20TransferCallData(to, amount) ==
    <<"executeBatch", "tokenAddress", "0", "transfer", to, amount>>

\* a variant that sends value along with the token call
GenerateWelcomeBonusCallDataWithValue ==
    <<"executeBatch", "tokenAddress", "1", "distributeWelcomeBonus">>

GenerateWelcomeBonusCallData ==
    <<"executeBatch", "tokenAddress", "0", "distributeWelcomeBonus">>

\* a variant that passes no value to execute
GenerateTransferCallDataNoValue(to, amount) ==
    <<"execute", to, ParseEther("0"), "0x">>

GenerateTransferCallData(to, amount) == <<"execute", to, amount, "0x">>

\* ------------------------------------------------------------- fees
\* utils/smartWallet.ts getGasPrices: toHex of each fee; toHex(undefined)
\* throws, which is the empty answer here
GetGasPricesHex(feeData) ==
    IF feeData.maxFeePerGas = NoData \/ feeData.maxPriorityFeePerGas = NoData
    THEN <<>>
    ELSE <<[maxFeePerGas |-> ToHex(feeData.maxFeePerGas),
            maxPriorityFeePerGas |-> ToHex(feeData.maxPriorityFeePerGas)]>>

\* a || b on a fee: undefined and 0n are both falsy
OrElse(fee, fallback) == IF fee = NoData \/ fee = 0 THEN fallback ELSE fee

\* the builder's getGasPrices, with the 20 gwei / 1 gwei floor
GetGasPrices(feeData) ==
    [maxFeePerGas |-> OrElse(feeData.maxFeePerGas, ParseGwei(20)),
     maxPriorityFeePerGas |-> OrElse(feeData.maxPriorityFeePerGas, ParseGwei(1))]

\* ------------------------------------------------------------- the operation
UserOperation(sender, nonce, initCode, callData, cgl, vgl, pvg, fees) ==
    [sender |-> sender, nonce |-> nonce, initCode |-> initCode,
     callData |-> callData, callGasLimit |-> cgl, verificationGasLimit |-> vgl,
     preVerificationGas |-> pvg, maxFeePerGas |-> fees.maxFeePerGas,
     maxPriorityFeePerGas |-> fees.maxPriorityFeePerGas,
     paymasterAndData |-> EmptyBytes, signature |-> EmptyBytes]

\* deployWallet: empty callData, callGasLimit '0x'
DeployWalletUserOp(l, fees) ==
    UserOperation(l.walletAddress, l.nonce[1], l.initCode, EmptyBytes,
                  EmptyBytes, Hex_a6d74, Hex_117af, fees)

\* deployWalletAndClaimWelcomeBonus
DeployAndClaimUserOp(l, fees) ==
    UserOperation(l.walletAddress, l.nonce[1], l.initCode, l.callData,
                  Hex_a6d74, Hex_a6d74, Hex_117af, fees)

\* buildUserOp: deployed wallet, initCode '0x'
BuildUserOp(l, fees) ==
    UserOperation(l.walletAddress, l.nonce[1], EmptyBytes, l.callData,
                  Hex_a6d74, Hex_a6d74, Hex_117af, fees)

\* buildUserOpWithInit: undeployed wallet, all three gas fields '0x'
BuildUserOpWithInit(l, fees) ==
    UserOperation(l.walletAddress, l.nonce[1], l.initCode, l.callData,
                  EmptyBytes, EmptyBytes, EmptyBytes, fees)

InitialUserOpPlaceholderSigned(l, fees) ==
    [UserOperation(l.walletAddress, l.nonce[1], l.initCode, l.callData,
                   100000, 150000, 50000, fees)
       EXCEPT !.signature = <<"01", "000000000000", "placeholder">>]

\* buildUserOperation's initial operation (bigint fields)
InitialUserOp(l, fees) ==
    UserOperation(l.walletAddress, l.nonce[1], l.initCode, l.callData,
                  100000, IF l.deployed[1] THEN 150000 ELSE 300000, 50000, fees)

\* a variant that ignores the deployment status
InitCodeAlways(deployed, publicKey) == GenerateInitCode(publicKey)

\* initCode of buildUserOperation: deployed ? '0x' : generateInitCode(key)
InitCodeFor(deployed, publicKey) ==
    IF deployed THEN EmptyBytes ELSE GenerateInitCode(publicKey)

\* ------------------------------------------------------------- gas
\* getSponsoredTxGasEstimateAndPaymasterData: the four fields of the answer
SponsoredFields(sponsorship) ==
    [paymasterAndData |-> sponsorship.paymasterAndData,
     callGasLimit |-> sponsorship.callGasLimit,
     verificationGasLimit |-> sponsorship.verificationGasLimit,
     preVerificationGas |-> sponsorship.preVerificationGas]

\* a variant that takes the gas limits and forgets paymasterAndData
ApplySponsorshipGasOnly(op, sponsorship) ==
    [op EXCEPT !.callGasLimit = sponsorship.callGasLimit,
               !.verificationGasLimit = sponsorship.verificationGasLimit,
               !.preVerificationGas = sponsorship.preVerificationGas]

\* userOp.paymasterAndData = sponsorship.paymasterAndData; ... (four stores)
ApplySponsorship(op, sponsorship) ==
    [op EXCEPT !.paymasterAndData = sponsorship.paymasterAndData,
               !.callGasLimit = sponsorship.callGasLimit,
               !.verificationGasLimit = sponsorship.verificationGasLimit,
               !.preVerificationGas = sponsorship.preVerificationGas]

\* a variant that divides before it multiplies
WithSafetyMarginDivideFirst(estimate) == (BigIntOfHex(estimate) \div 100) * 150

\* (BigInt(estimate) * 150n) / 100n
WithSafetyMargin(estimate) == (BigIntOfHex(estimate) * 150) \div 100

ApplySafetyMargins(op, gasEstimate) ==
    [op EXCEPT !.callGasLimit = WithSafetyMargin(gasEstimate.callGasLimit),
               !.verificationGasLimit =
                   WithSafetyMargin(gasEstimate.verificationGasLimit),
               !.preVerificationGas =
                   WithSafetyMargin(gasEstimate.preVerificationGas)]

\* a variant with the two verification limits the wrong way round
FallbackGasLimitsSwapped(deployed) ==
    [callGasLimit |-> 150000,
     verificationGasLimit |-> IF deployed THEN 400000 ELSE 200000,
     preVerificationGas |-> 75000]

\* the catch branch of buildUserOperation
FallbackGasLimits(deployed) ==
    [callGasLimit |-> 150000,
     verificationGasLimit |-> IF deployed THEN 200000 ELSE 400000,
     preVerificationGas |-> 75000]

ApplyFallback(op, deployed) ==
    [op EXCEPT !.callGasLimit = FallbackGasLimits(deployed).callGasLimit,
               !.verificationGasLimit =
                   FallbackGasLimits(deployed).verificationGasLimit,
               !.preVerificationGas =
                   FallbackGasLimits(deployed).preVerificationGas]

\* ------------------------------------------------------------- signing
\* a variant without the check for a missing assertion
AssertionThrowsOnRejection(outcome) == outcome = "rejects"

\* if (!assertion) throw; a rejected prompt throws as well
AssertionThrows(outcome) == outcome = "null" \/ outcome = "rejects"

\* '"challenge":"'
ChallengeKey ==
    <<"\"", "c", "h", "a", "l", "l", "e", "n", "g", "e", "\"", ":", "\"">>

\* '"type":"webauthn.get"'
ResponseTypeKey ==
    <<"\"", "t", "y", "p", "e", "\"", ":", "\"", "w", "e", "b", "a", "u",
      "t", "h", "n", ".", "g", "e", "t", "\"">>

\* new TextDecoder().decode(fromBase64urlToBytes(assertion.response
\* .clientDataJSON)), character by character
ClientDataJSON(assertion) ==
    CASE assertion = "assertionA" ->
        <<"{", "\"", "t", "y", "p", "e", "\"", ":", "\"", "w", "e", "b", "a",
          "u", "t", "h", "n", ".", "g", "e", "t", "\"", ",", "\"", "c", "h",
          "a", "l", "l", "e", "n", "g", "e", "\"", ":", "\"", "c", "\"", "}">>
      [] assertion = "assertionNoChallenge" ->
        <<"{", "\"", "t", "y", "p", "e", "\"", ":", "\"", "w", "e", "b", "a",
          "u", "t", "h", "n", ".", "g", "e", "t", "\"", ",", "\"", "o", "r",
          "i", "g", "i", "n", "\"", ":", "\"", "o", "\"", "}">>
      [] assertion = "assertionStandard" ->
        <<"{", "\"", "t", "y", "p", "e", "\"", ":", "\"", "w", "e", "b",
          "a", "u", "t", "h", "n", ".", "g", "e", "t", "\"", ",", "\"",
          "c", "h", "a", "l", "l", "e", "n", "g", "e", "\"", ":", "\"",
          "a", "b", "c", "1", "2", "3", "\"", ",", "\"", "o", "r", "i",
          "g", "i", "n", "\"", ":", "\"", "h", "t", "t", "p", "s", ":",
          "/", "/", "U+00E9", ".", "e", "x", "a", "m", "p", "l", "e", "\"",
          "}">>
      [] assertion = "assertionChallengeFirst" ->
        <<"{", "\"", "c", "h", "a", "l", "l", "e", "n", "g", "e", "\"",
          ":", "\"", "c", "\"", ",", "\"", "t", "y", "p", "e", "\"", ":",
          "\"", "w", "e", "b", "a", "u", "t", "h", "n", ".", "g", "e", "t",
          "\"", "}">>
      [] assertion = "assertionNested" ->
        <<"{", "\"", "t", "y", "p", "e", "\"", ":", "\"", "w", "e", "b",
          "a", "u", "t", "h", "n", ".", "g", "e", "t", "\"", ",", "\"",
          "c", "h", "a", "l", "l", "e", "n", "g", "e", "\"", ":", "\"",
          "c", "\"", ",", "\"", "x", "\"", ":", "{", "\"", "c", "h", "a",
          "l", "l", "e", "n", "g", "e", "\"", ":", "\"", "d", "\"", "}",
          "}">>
      [] OTHER ->
        <<"{", "\"", "t", "y", "p", "e", "\"", ":", "\"", "w", "e", "b", "a",
          "u", "t", "h", "n", ".", "c", "r", "e", "a", "t", "e", "\"", ",",
          "\"", "c", "h", "a", "l", "l", "e", "n", "g", "e", "\"", ":", "\"",
          "c", "\"", "}">>

\* a variant that answers the last position at which the needle stands
IndexOfLast(text, needle) ==
    LET at == {i \in 0..(Len(text) - Len(needle)) :
                  SubSeq(text, i + 1, i + Len(needle)) = needle}
    IN IF at = {} THEN -1
       ELSE CHOOSE i \in at : \A j \in at : i >= j

\* String.prototype.indexOf: the first position (from 0) at which the
\* needle stands in the text, -1 when it stands nowhere
IndexOf(text, needle) ==
    LET at == {i \in 0..(Len(text) - Len(needle)) :
                  SubSeq(text, i + 1, i + Len(needle)) = needle}
    IN IF at = {} THEN -1
       ELSE CHOOSE i \in at : \A j \in at : i <= j

\* a variant of the encoder that takes any integer for a uint256
EncodesAnyInteger(n) == TRUE

\* encodeAbiParameters on a uint256 component: viem throws
\* IntegerOutOfRangeError for a value below zero
EncodesAsUint256(n) == n >= 0

\* if (challengeLocation === -1) throw; if (responseTypeLocation === -1)
\* throw: the builder's formatter only
LocationMissing(usecase, location) ==
    usecase = "executeUserOperation" /\ location = -1

\* formatWebAuthnSignature throws: the builder's explicit checks, or the
\* encoder refusing a location in either implementation
FormatThrows(usecase, assertion) ==
    LET text == ClientDataJSON(assertion)
        challengeLocation == IndexOf(text, ChallengeKey)
        responseTypeLocation == IndexOf(text, ResponseTypeKey)
    IN \/ LocationMissing(usecase, challengeLocation)
       \/ LocationMissing(usecase, responseTypeLocation)
       \/ ~EncodesAsUint256(challengeLocation)
       \/ ~EncodesAsUint256(responseTypeLocation)

\* a variant that keeps a count between calls and puts it in validUntil
FormatWebAuthnSignatureCounting(assertion) ==
    <<"01", ToHex(invocations), [assertion |-> assertion]>>

\* version (1 byte), validUntil (6 bytes), the ABI-encoded credentials
FormatWebAuthnSignature(assertion) ==
    LET text == ClientDataJSON(assertion)
    IN <<"01", "000000000000",
         [assertion |-> assertion,
          challengeLocation |-> IndexOf(text, ChallengeKey),
          responseTypeLocation |-> IndexOf(text, ResponseTypeKey)]>>

\* a variant that signs and then drops the paymaster's data
SignedUserOpUnsponsored(op, signature) ==
    [op EXCEPT !.signature = signature, !.paymasterAndData = EmptyBytes]

\* { ...userOp, signature }
SignedUserOp(op, signature) == [op EXCEPT !.signature = signature]

\* the builder's submitUserOperation: every bigint as 0x + toString(16)
UserOpAsHex(op) ==
    [op EXCEPT !.nonce = ToHex(op.nonce),
               !.callGasLimit = ToHex(op.callGasLimit),
               !.verificationGasLimit = ToHex(op.verificationGasLimit),
               !.preVerificationGas = ToHex(op.preVerificationGas),
               !.maxFeePerGas = ToHex(op.maxFeePerGas),
               !.maxPriorityFeePerGas = ToHex(op.maxPriorityFeePerGas)]

\* the params[0] of eth_sendUserOperation
WireOp(usecase, op) ==
    IF usecase = "executeUserOperation" THEN UserOpAsHex(op) ELSE op

\* ------------------------------------------------------------- sequencing
\* a variant of the sequencing that goes from the address to the nonce
NextStageSkippingCheck(usecase, stage) ==
    CASE stage = "getSmartWalletAddress" -> "getNonce"
      [] stage = "isWalletDeployed" -> "getNonce"
      [] stage = "getNonce" -> "getGasPrices"
      [] stage = "getGasPrices" ->
            IF usecase = "executeUserOperation" THEN "estimate" ELSE "sponsor"
      [] stage = "sponsor" -> "getUserOpHash"
      [] stage = "estimate" -> "getUserOpHash"
      [] stage = "getUserOpHash" -> "signChallenge"
      [] stage = "signChallenge" -> "submit"
      [] OTHER -> "resolved"

\* the await that follows a completed await of a use-case
NextStage(usecase, stage) ==
    CASE stage = "getSmartWalletAddress" ->
            IF usecase = "executeUserOperation" THEN "isWalletDeployed"
            ELSE "getNonce"
      [] stage = "isWalletDeployed" -> "getNonce"
      [] stage = "getNonce" -> "getGasPrices"
      [] stage = "getGasPrices" ->
            IF usecase = "executeUserOperation" THEN "estimate" ELSE "sponsor"
      [] stage = "sponsor" -> "getUserOpHash"
      [] stage = "estimate" -> "getUserOpHash"
      [] stage = "getUserOpHash" -> "signChallenge"
      [] stage = "signChallenge" -> "submit"
      [] OTHER -> "resolved"

\* a variant of sendTokens without the check of its publicKey argument
PublicKeyNeverRequired(deployed, publicKey) == FALSE

\* sendTokens: if (!publicKey) throw, in the branch of an undeployed wallet
PublicKeyRequired(deployed, publicKey) == ~deployed /\ publicKey = NoKey

\* one more entry of the invocation's history
Logged(p, events) == [history EXCEPT ![p] = history[p] \o events]

\* ------------------------------------------------------------- invocation
Free(p) == pc[p] \in {"idle", "resolved", "rejected"}
InFlight(p) == ~Free(p)

\* a call of a use-case: every local of the invocation is fresh
Start(p, c, first, scene) ==
    /\ Free(p)
    /\ invocations < MaxInvocations
    /\ invocations' = invocations + 1
    /\ pc' = [pc EXCEPT ![p] = first]
    /\ call' = [call EXCEPT ![p] = c]
    /\ local' = [local EXCEPT ![p] = [NoLocal EXCEPT !.walletAddress = c.walletAddress]]
    /\ userOp' = [userOp EXCEPT ![p] = <<>>]
    /\ observed' = [observed EXCEPT ![p] = NoObserved]
    /\ sponsorRequest' = [sponsorRequest EXCEPT ![p] = <<>>]
    /\ hashedOp' = [hashedOp EXCEPT ![p] = <<>>]
    /\ sentOp' = [sentOp EXCEPT ![p] = <<>>]
    /\ signedUserOp' = [signedUserOp EXCEPT ![p] = <<>>]
    /\ prompts' = [prompts EXCEPT ![p] = 0]
    /\ failedAt' = [failedAt EXCEPT ![p] = "none"]
    /\ owner' = [owner EXCEPT ![p] = scene]
    /\ history' = [history EXCEPT ![p] = <<>>]
    /\ UNCHANGED <<chainVars, pollVars, codecVars, coilVars, tokenVars, proxyVars>>

InvokeDeployWallet(p, env) ==
    \E k \in env.keys :
        /\ Start(p, [NoCall EXCEPT !.usecase = "deployWallet", !.publicKey = k],
                 "getSmartWalletAddress", NoScene)
        /\ UNCHANGED <<isSending, creationVars>>

InvokeDeployWalletAndClaimWelcomeBonus(p, env) ==
    \E k \in env.keys :
        /\ Start(p, [NoCall EXCEPT !.usecase = "deployWalletAndClaimWelcomeBonus",
                                   !.publicKey = k],
                 "getSmartWalletAddress", NoScene)
        /\ UNCHANGED <<isSending, creationVars>>

\* sendTokens called by a screen other than SendScene, with or without the key
InvokeSendTokens(p, env) ==
    \E w \in env.wallets, k \in env.keys \cup {NoKey}, to \in Recipients, a \in Amounts :
        /\ Start(p, [usecase |-> "sendTokens", publicKey |-> k,
                     walletAddress |-> w, to |-> to, amount |-> a],
                 "isWalletDeployed", NoScene)
        /\ UNCHANGED <<isSending, creationVars>>

InvokeExecuteUserOperation(p, env) ==
    \E k \in env.keys, r \in Recipients :
        /\ Start(p, [NoCall EXCEPT !.usecase = "executeUserOperation",
                                   !.publicKey = k, !.to = r],
                 "getSmartWalletAddress", NoScene)
        /\ UNCHANGED <<isSending, creationVars>>

\* the Send button of a SendScene mount takes presses unless disabled
SendEnabled(scene) == ~isSending[scene]

\* the mount shows its form: no confirming overlay over it, and it has not
\* navigated back after a send
OnScreen(scene) == ~isConfirming[scene] /\ pollPc[scene] /= "done"

\* SendScene.handleSend up to its await: setIsSending(true); sendTokens(...)
\* without a public key
HandleSend(scene, p, env) ==
    \E w \in env.wallets, to \in Recipients, a \in Amounts :
        /\ SendEnabled(scene)
        /\ OnScreen(scene)
        /\ Start(p, [usecase |-> "sendTokens", publicKey |-> NoKey,
                     walletAddress |-> w, to |-> to, amount |-> a],
                 "isWalletDeployed", scene)
        /\ isSending' = [isSending EXCEPT ![scene] = TRUE]
        /\ UNCHANGED creationVars

\* handleSend after its await, on either outcome: setIsSending(false)
SceneSettled(p) ==
    IF owner[p] \in Scenes THEN [isSending EXCEPT ![owner[p]] = FALSE]
    ELSE isSending

\* a variant that stays at the failed await, to request again
RejectAndRetry(p, stage) ==
    /\ pc' = pc
    /\ failedAt' = [failedAt EXCEPT ![p] = "none"]
    /\ isSending' = isSending

\* a variant whose catch logs the error and returns
RejectSwallowed(p, stage) ==
    /\ pc' = [pc EXCEPT ![p] = "resolved"]
    /\ failedAt' = [failedAt EXCEPT ![p] = stage]
    /\ isSending' = SceneSettled(p)

\* a throw inside the use-case's try: the use-case rejects
Reject(p, stage) ==
    /\ pc' = [pc EXCEPT ![p] = "rejected"]
    /\ failedAt' = [failedAt EXCEPT ![p] = stage]
    /\ isSending' = SceneSettled(p)

\* ------------------------------------------------------------- the steps
GetSmartWalletAddressStep(p) ==
    /\ pc[p] = "getSmartWalletAddress"
    /\ LET c == call[p]
           w == GetSmartWalletAddress(c.publicKey)
       IN IF c.usecase = "executeUserOperation"
          THEN /\ local' = [local EXCEPT ![p].walletAddress = w]
               /\ UNCHANGED observed
          ELSE /\ local' = [local EXCEPT
                     ![p].walletAddress = w,
                     ![p].initCode = GenerateInitCode(c.publicKey),
                     ![p].callData =
                         IF c.usecase = "deployWalletAndClaimWelcomeBonus"
                         THEN GenerateWelcomeBonusCallData ELSE EmptyBytes]
               /\ observed' = [observed EXCEPT
                     ![p].codeAtInit = <<code[w] /= NoCode>>]
    /\ pc' = [pc EXCEPT ![p] = NextStage(call[p].usecase, pc[p])]
    /\ history' = Logged(p, <<"getSmartWalletAddress">>)
    /\ UNCHANGED <<chainVars, invocations, call, userOp,
                   sponsorRequest, hashedOp, sentOp, prompts, signedUserOp,
                   failedAt, owner, pollVars, codecVars, coilVars, appVars, isSending>>

IsWalletDeployedStep(p) ==
    /\ pc[p] = "isWalletDeployed"
    /\ LET c == call[p]
           w == local[p].walletAddress
           deployed == IsWalletDeployed(w)
       IN /\ observed' = [observed EXCEPT ![p].codeAtInit = <<code[w] /= NoCode>>]
          /\ IF c.usecase = "sendTokens" /\ PublicKeyRequired(deployed, c.publicKey)
             THEN /\ Reject(p, "publicKey required")
                  /\ local' = [local EXCEPT ![p].deployed = <<deployed>>]
             ELSE /\ local' = [local EXCEPT
                        ![p].deployed = <<deployed>>,
                        ![p].initCode =
                            IF c.usecase = "executeUserOperation"
                            THEN InitCodeFor(deployed, c.publicKey)
                            ELSE IF deployed THEN EmptyBytes
                            ELSE GenerateInitCode(c.publicKey)]
                  /\ pc' = [pc EXCEPT ![p] = NextStage(c.usecase, pc[p])]
                  /\ UNCHANGED <<failedAt, isSending>>
    /\ history' = Logged(p, <<"isWalletDeployed">>)
    /\ UNCHANGED <<chainVars, invocations, call, userOp,
                   sponsorRequest, hashedOp, sentOp, prompts, signedUserOp,
                   owner, pollVars, codecVars, coilVars, appVars>>

GetNonceStep(p) ==
    /\ pc[p] = "getNonce"
    /\ LET c == call[p]
           w == local[p].walletAddress
       IN /\ observed' = [observed EXCEPT ![p].nonce = <<chainNonce[w]>>]
          /\ local' = [local EXCEPT
                ![p].nonce = IF c.usecase = "executeUserOperation"
                             THEN <<GetNonce(w)>> ELSE <<ToHex(GetNonce(w))>>,
                ![p].callData =
                    CASE c.usecase = "sendTokens" ->
                           GenerateERC20TransferCallData(c.to, ParseEther(c.amount))
                      [] c.usecase = "executeUserOperation" ->
                           GenerateTransferCallData(c.to, ParseEther("0.0001"))
                      [] OTHER -> local[p].callData]
    /\ pc' = [pc EXCEPT ![p] = NextStage(call[p].usecase, pc[p])]
    /\ history' = Logged(p, IF call[p].usecase \in {"sendTokens", "executeUserOperation"}
                            THEN <<"getNonce", "callData">> ELSE <<"getNonce">>)
    /\ UNCHANGED <<chainVars, invocations, call, userOp,
                   sponsorRequest, hashedOp, sentOp, prompts, signedUserOp,
                   failedAt, owner, pollVars, codecVars, coilVars, appVars, isSending>>

\* the operation the use-case builds once the fees are known
BuiltUserOp(c, l, fees) ==
    CASE c.usecase = "deployWallet" -> DeployWalletUserOp(l, fees)
      [] c.usecase = "deployWalletAndClaimWelcomeBonus" -> DeployAndClaimUserOp(l, fees)
      [] c.usecase = "sendTokens" ->
            IF l.deployed[1] THEN BuildUserOp(l, fees) ELSE BuildUserOpWithInit(l, fees)
      [] OTHER -> InitialUserOp(l, fees)

GetGasPricesStep(p, env) ==
    /\ pc[p] = "getGasPrices"
    /\ \E feeData \in env.fees :
        LET c == call[p]
            hexFees == GetGasPricesHex(feeData)
        IN /\ observed' = [observed EXCEPT ![p].fees = <<feeData>>]
           /\ IF c.usecase = "executeUserOperation"
              THEN /\ userOp' = [userOp EXCEPT
                         ![p] = <<BuiltUserOp(c, local[p], GetGasPrices(feeData))>>]
                   /\ pc' = [pc EXCEPT ![p] = NextStage(c.usecase, pc[p])]
                   /\ UNCHANGED <<failedAt, isSending>>
              ELSE IF hexFees = <<>>
              THEN /\ Reject(p, "getGasPrices")
                   /\ UNCHANGED userOp
              ELSE /\ userOp' = [userOp EXCEPT
                         ![p] = <<BuiltUserOp(c, local[p], hexFees[1])>>]
                   /\ pc' = [pc EXCEPT ![p] = NextStage(c.usecase, pc[p])]
                   /\ UNCHANGED <<failedAt, isSending>>
    /\ history' = Logged(p, <<"getGasPrices">>)
    /\ UNCHANGED <<chainVars, invocations, call, local,
                   sponsorRequest, hashedOp, sentOp, prompts, signedUserOp,
                   owner, pollVars, codecVars, coilVars, appVars>>

\* pm_sponsorUserOperation answers
SponsorStep(p, env) ==
    /\ pc[p] = "sponsor"
    /\ \E answer \in env.sponsorships :
        /\ observed' = [observed EXCEPT ![p].sponsorship = <<answer>>,
                                        ![p].gasPath = "sponsored"]
        /\ userOp' = [userOp EXCEPT
              ![p] = <<ApplySponsorship(userOp[p][1], SponsoredFields(answer))>>]
    /\ sponsorRequest' = [sponsorRequest EXCEPT ![p] = userOp[p]]
    /\ pc' = [pc EXCEPT ![p] = NextStage(call[p].usecase, pc[p])]
    /\ history' = Logged(p, <<"pm_sponsorUserOperation">>)
    /\ UNCHANGED <<chainVars, invocations, call, local, hashedOp,
                   sentOp, prompts, signedUserOp, failedAt, owner, pollVars, codecVars, coilVars, appVars, isSending>>

\* pm_sponsorUserOperation fails: nothing catches it before the use-case's catch
SponsorFails(p) ==
    /\ pc[p] = "sponsor"
    /\ sponsorRequest' = [sponsorRequest EXCEPT ![p] = userOp[p]]
    /\ Reject(p, "sponsor")
    /\ history' = Logged(p, <<"pm_sponsorUserOperation">>)
    /\ UNCHANGED <<chainVars, invocations, call, local, userOp,
                   observed, hashedOp, sentOp, prompts, signedUserOp, owner, pollVars, codecVars, coilVars, appVars>>

\* eth_estimateUserOperationGas answers
EstimateStep(p, env) ==
    /\ pc[p] = "estimate"
    /\ \E gasEstimate \in env.estimates :
        /\ observed' = [observed EXCEPT ![p].estimate = <<gasEstimate>>,
                                        ![p].gasPath = "estimated"]
        /\ userOp' = [userOp EXCEPT
              ![p] = <<ApplySafetyMargins(userOp[p][1], gasEstimate)>>]
    /\ pc' = [pc EXCEPT ![p] = NextStage(call[p].usecase, pc[p])]
    /\ history' = Logged(p, <<"eth_estimateUserOperationGas">>)
    /\ UNCHANGED <<chainVars, invocations, call, local,
                   sponsorRequest, hashedOp, sentOp, prompts, signedUserOp,
                   failedAt, owner, pollVars, codecVars, coilVars, appVars, isSending>>

\* eth_estimateUserOperationGas fails: the catch of buildUserOperation
EstimateFails(p) ==
    /\ pc[p] = "estimate"
    /\ observed' = [observed EXCEPT ![p].gasPath = "fallback"]
    /\ userOp' = [userOp EXCEPT
          ![p] = <<ApplyFallback(userOp[p][1], local[p].deployed[1])>>]
    /\ pc' = [pc EXCEPT ![p] = NextStage(call[p].usecase, pc[p])]
    /\ history' = Logged(p, <<"eth_estimateUserOperationGas">>)
    /\ UNCHANGED <<chainVars, invocations, call, local,
                   sponsorRequest, hashedOp, sentOp, prompts, signedUserOp,
                   failedAt, owner, pollVars, codecVars, coilVars, appVars, isSending>>

\* entryPoint.getUserOpHash(userOp) answers
GetUserOpHashStep(p) ==
    /\ pc[p] = "getUserOpHash"
    /\ hashedOp' = [hashedOp EXCEPT ![p] = userOp[p]]
    /\ pc' = [pc EXCEPT ![p] = NextStage(call[p].usecase, pc[p])]
    /\ history' = Logged(p, <<"getUserOperationHash">>)
    /\ UNCHANGED <<chainVars, invocations, call, local, userOp,
                   observed, sponsorRequest, sentOp, prompts, signedUserOp,
                   failedAt, owner, pollVars, codecVars, coilVars, appVars, isSending>>

\* the passkey prompt ends: an assertion, nothing, or a rejection
SignChallengeStep(p) ==
    /\ pc[p] = "signChallenge"
    /\ prompts' = [prompts EXCEPT ![p] = prompts[p] + 1]
    /\ history' = Logged(p, <<"signChallenge">>)
    /\ \E outcome \in PromptOutcomes :
        /\ observed' = [observed EXCEPT ![p].prompt = <<outcome>>]
        /\ IF AssertionThrows(outcome)
           THEN /\ Reject(p, "signChallenge")
                /\ UNCHANGED signedUserOp
           ELSE IF FormatThrows(call[p].usecase, outcome)
           THEN /\ Reject(p, "formatWebAuthnSignature")
                /\ UNCHANGED signedUserOp
           ELSE /\ signedUserOp' = [signedUserOp EXCEPT
                      ![p] = <<SignedUserOp(userOp[p][1],
                                            FormatWebAuthnSignature(outcome))>>]
                /\ pc' = [pc EXCEPT ![p] = NextStage(call[p].usecase, pc[p])]
                /\ UNCHANGED <<failedAt, isSending>>
    /\ UNCHANGED <<chainVars, invocations, call, local, userOp,
                   sponsorRequest, hashedOp, sentOp, owner, pollVars, codecVars, coilVars, appVars>>

\* handleSend after sendTokens resolved: setIsConfirming(true); attempts = 0;
\* poll()
PollStarts(p) ==
    IF owner[p] \in Scenes
    THEN /\ isConfirming' = [isConfirming EXCEPT ![owner[p]] = TRUE]
         /\ attempts' = [attempts EXCEPT ![owner[p]] = 0]
         /\ pollPc' = [pollPc EXCEPT ![owner[p]] = "loop"]
         /\ expectedNewBalance' = [expectedNewBalance EXCEPT
               ![owner[p]] = Available - DesiredAmountWei(call[p].amount)]
         /\ UNCHANGED <<showSuccessToast, clock, lastRead, firstSeen, refreshes,
                        refreshFailed, dispatched>>
    ELSE UNCHANGED pollVars

\* what the entry point reads of an accepted operation
Pending(op) == [sender |-> op.sender, nonce |-> HexValue(op.nonce),
                initCode |-> op.initCode]

\* eth_sendUserOperation is requested; the bundler accepts or refuses
SubmitStep(p) ==
    /\ pc[p] = "submit"
    /\ LET wire == WireOp(call[p].usecase, signedUserOp[p][1])
       IN /\ sentOp' = [sentOp EXCEPT ![p] = <<wire>>]
          /\ history' = Logged(p, <<"eth_sendUserOperation">>)
          /\ \E accepted \in BOOLEAN :
                IF accepted
                THEN /\ mempool' = mempool \cup {Pending(wire)}
                     /\ pc' = [pc EXCEPT ![p] = NextStage(call[p].usecase, pc[p])]
                     /\ isSending' = SceneSettled(p)
                     /\ PollStarts(p)
                     /\ UNCHANGED failedAt
                ELSE /\ Reject(p, "submit")
                     /\ UNCHANGED <<mempool, pollVars>>
    /\ UNCHANGED <<code, chainNonce, invocations, call, local, userOp,
                   observed, sponsorRequest, hashedOp, prompts, signedUserOp,
                   owner, codecVars, coilVars, appVars>>

\* a chain read rejects (RPC failure); no step catches it
ReadRejects(p) ==
    /\ pc[p] \in {"getSmartWalletAddress", "isWalletDeployed", "getNonce",
                  "getGasPrices", "getUserOpHash"}
    /\ Reject(p, pc[p])
    /\ UNCHANGED <<chainVars, invocations, call, local, userOp,
                   observed, sponsorRequest, hashedOp, sentOp, prompts,
                   signedUserOp, owner, pollVars, codecVars, coilVars, appVars, history>>

\* the entry point handles an accepted operation: a valid one raises the
\* sender's nonce and leaves code at the sender; any other is dropped
EntryPointHandleOps ==
    \E op \in mempool :
        LET s == op.sender
            valid == /\ op.nonce = chainNonce[s]
                     /\ (op.initCode = EmptyBytes) = (code[s] /= NoCode)
                     /\ op.initCode /= EmptyBytes =>
                            GetSmartWalletAddress(op.initCode[3]) = s
        IN /\ valid => chainNonce[s] < MaxNonce
           /\ mempool' = mempool \ {op}
           /\ chainNonce' = IF valid THEN [chainNonce EXCEPT ![s] = @ + 1]
                            ELSE chainNonce
           /\ code' = IF valid THEN [code EXCEPT ![s] = ContractCode] ELSE code
           /\ UNCHANGED <<invocations, pc, call, local, userOp,
                          observed, sponsorRequest, hashedOp, sentOp, prompts,
                          signedUserOp, failedAt, owner, pollVars, codecVars, coilVars, appVars, isSending, history>>

\* ------------------------------------------------------------- encodings
\* Bytes are numbers 0..255, a hex string is the sequence of the digit
\* pairs of its bytes, text is a sequence of UTF-16 units.

\* the assertions the encoding functions are applied to
CodecAssertions ==
    Assertions \cup {"assertionStandard", "assertionChallengeFirst",
                     "assertionNested"}

\* the bytes new TextDecoder().decode turned into the text
Utf8(text) ==
    LET RECURSIVE bytes(_)
        bytes(t) == IF t = <<>> THEN <<>>
                    ELSE (IF Head(t) = "U+00E9" THEN <<"c3", "a9">>
                          ELSE <<Head(t)>>) \o bytes(Tail(t))
    IN bytes(text)

\* viem's toHex of a byte array
ToHexBytes(bytes) ==
    [i \in 1..Len(bytes) |-> <<bytes[i] \div 16, bytes[i] % 16>>]

\* hex.match(/.{2}/g).map((byte) => parseInt(byte, 16))
ParseHexBytes(hex) == [i \in 1..Len(hex) |-> hex[i][1] * 16 + hex[i][2]]

Base64Alphabet ==
    <<"A", "B", "C", "D", "E", "F", "G", "H", "I", "J", "K", "L", "M", "N",
      "O", "P", "Q", "R", "S", "T", "U", "V", "W", "X", "Y", "Z", "a", "b",
      "c", "d", "e", "f", "g", "h", "i", "j", "k", "l", "m", "n", "o", "p",
      "q", "r", "s", "t", "u", "v", "w", "x", "y", "z", "0", "1", "2", "3",
      "4", "5", "6", "7", "8", "9", "+", "/">>

\* btoa of the binary string of the bytes
Btoa(bytes) ==
    LET ch(n) == Base64Alphabet[n + 1]
        RECURSIVE groups(_)
        groups(b) ==
            IF b = <<>> THEN <<>>
            ELSE IF Len(b) = 1
            THEN <<ch(b[1] \div 4), ch((b[1] % 4) * 16), "=", "=">>
            ELSE IF Len(b) = 2
            THEN LET n == b[1] * 256 + b[2]
                 IN <<ch(n \div 1024), ch((n \div 16) % 64),
                      ch((n % 16) * 4), "=">>
            ELSE LET n == b[1] * 65536 + b[2] * 256 + b[3]
                 IN <<ch(n \div 262144), ch((n \div 4096) % 64),
                      ch((n \div 64) % 64), ch(n % 64)>>
                    \o groups(SubSeq(b, 4, Len(b)))
    IN groups(bytes)

\* atob, then charCodeAt of every character; <<-1>> stands for the
\* InvalidCharacterError atob throws
Atob(text) ==
    LET n == Len(text)
        data == IF n % 4 = 0 /\ n >= 2 /\ text[n] = "="
                THEN IF text[n - 1] = "=" THEN SubSeq(text, 1, n - 2)
                     ELSE SubSeq(text, 1, n - 1)
                ELSE text
        valid == /\ Len(data) % 4 /= 1
                 /\ \A i \in 1..Len(data) :
                       \E k \in 1..64 : Base64Alphabet[k] = data[i]
        sextet(i) == (CHOOSE k \in 1..64 : Base64Alphabet[k] = data[i]) - 1
        byte(j) ==
            LET g == 4 * ((j - 1) \div 3)
                k == (j - 1) % 3
            IN CASE k = 0 -> sextet(g + 1) * 4 + sextet(g + 2) \div 16
                 [] k = 1 -> (sextet(g + 2) % 16) * 16 + sextet(g + 3) \div 4
                 [] OTHER -> (sextet(g + 3) % 4) * 64 + sextet(g + 4)
    IN IF valid THEN [j \in 1..((Len(data) * 6) \div 8) |-> byte(j)]
       ELSE <<-1>>

\* a variant that pads and leaves '-' and '_' in place
Base64urlToBase64Unswapped(str) ==
    str \o [i \in 1..((4 - (Len(str) % 4)) % 4) |-> "="]

\* str.replace(/-/g, '+').replace(/_/g, '/'), padded with '=' to a
\* multiple of four
Base64urlToBase64(str) ==
    LET base64Standard ==
            [i \in 1..Len(str) |-> CASE str[i] = "-" -> "+"
                                     [] str[i] = "_" -> "/"
                                     [] OTHER -> str[i]]
    IN base64Standard \o
       [i \in 1..((4 - (Len(base64Standard) % 4)) % 4) |-> "="]

FromBase64urlToBytes(str) == Atob(Base64urlToBase64(str))

\* encodePacked(['uint8', 'uint48', 'bytes32'], [version, validUntil,
\* userOpHash]) with version 1 and validUntil 0
MessageToVerify(userOpHash) ==
    LET version == 1
        validUntil == 0
    IN ToHexBytes(<<version>>
                  \o [i \in 1..6 |-> IF i = 6 THEN validUntil ELSE 0]
                  \o userOpHash)

\* signUserOperation: btoa of the message's bytes, '+' to '-', '/' to '_',
\* '=' removed
SignerChallenge(userOpHash) ==
    LET challengeBytes == ParseHexBytes(MessageToVerify(userOpHash))
        base64 == Btoa(challengeBytes)
        swapped == [i \in 1..Len(base64) |-> CASE base64[i] = "+" -> "-"
                                               [] base64[i] = "/" -> "_"
                                               [] OTHER -> base64[i]]
        NotPadding(c) == c /= "="
    IN SelectSeq(swapped, NotPadding)

\* the contents of the two INTEGERs of a DER ECDSA-Sig-Value, as
\* AsnParser.parse and p256.Signature.fromBytes read them
DerIntegers(signature) ==
    LET rLength == signature[4]
        sLength == signature[6 + rLength]
    IN [r |-> SubSeq(signature, 5, 4 + rLength),
        s |-> SubSeq(signature, 7 + rLength, 6 + rLength + sLength)]

\* bytes[0] === 0x0 && (bytes[1] & (1 << 7)) !== 0
ShouldRemoveLeadingZero(bytes) ==
    Len(bytes) >= 2 /\ bytes[1] = 0 /\ bytes[2] >= 128

\* helpers.ts parseSignature
ParseSignature(signature) ==
    LET parsedSignature == DerIntegers(signature)
        rBytes == IF ShouldRemoveLeadingZero(parsedSignature.r)
                  THEN Tail(parsedSignature.r) ELSE parsedSignature.r
        sBytes == IF ShouldRemoveLeadingZero(parsedSignature.s)
                  THEN Tail(parsedSignature.s) ELSE parsedSignature.s
        finalSignature == rBytes \o sBytes
        end == IF Len(finalSignature) < 32 THEN Len(finalSignature) ELSE 32
    IN [r |-> ToHexBytes(SubSeq(finalSignature, 1, end)),
        s |-> ToHexBytes(SubSeq(finalSignature, 33, Len(finalSignature)))]

\* a bigint, held as its big-endian bytes without leading zeros
BytesToNumber(bytes) ==
    LET RECURSIVE strip(_)
        strip(b) == IF b /= <<>> /\ b[1] = 0 THEN strip(Tail(b)) ELSE b
    IN strip(bytes)

\* viem's toHex(n, { size }): left-padded with zeros; <<>> stands for the
\* SizeOverflowError of a number that does not fit
NumberToHex(n, size) ==
    IF Len(n) > size THEN <<>>
    ELSE ToHexBytes([i \in 1..(size - Len(n)) |-> 0] \o n)

\* formatWebAuthnSignature: p256.Signature.fromBytes(signatureBytes, 'der'),
\* then toHex(r, { size: 32 }) and toHex(s, { size: 32 })
SignatureRS(signatureBytes) ==
    LET signature == DerIntegers(signatureBytes)
    IN [r |-> NumberToHex(BytesToNumber(signature.r), 32),
        s |-> NumberToHex(BytesToNumber(signature.s), 32)]

\* the arguments: every assertion; valid DER signatures whose r and s are
\* 32 bytes, 32 bytes behind a sign byte, 31 bytes, 31 bytes behind a sign
\* byte, and 30 bytes; four userOpHashes
CodecInputs ==
    LET fill(n, b) == [i \in 1..n |-> b]
        integers(b) == {<<127>> \o fill(31, b), <<0, 128>> \o fill(31, b),
                        <<127>> \o fill(30, b), <<0, 128>> \o fill(30, b),
                        <<1>> \o fill(29, b)}
        der(r, s) == <<48, 4 + Len(r) + Len(s), 2, Len(r)>> \o r
                     \o <<2, Len(s)>> \o s
        hashes == {fill(32, 255), fill(32, 0),
                   [i \in 1..32 |-> CASE i > 14 -> 255
                                      [] i % 3 = 0 -> 251
                                      [] i % 3 = 1 -> 239
                                      [] OTHER -> 190],
                   [i \in 1..32 |-> (7 * i) % 256]}
    IN [assertion : CodecAssertions,
        signatureBytes : {der(r, s) : r \in integers(17), s \in integers(34)},
        userOpHash : hashes]

InitCodec ==
    /\ PipelineInit
    /\ codecIn \in CodecInputs
    /\ codecOut = NoCodecOutput
    /\ CoilConstructed
    /\ ScreensInit

\* formatWebAuthnSignature looks up the two locations
LocateKeys ==
    /\ codecOut.locations = <<>>
    /\ LET text == ClientDataJSON(codecIn.assertion)
       IN codecOut' = [codecOut EXCEPT !.locations =
              <<[challengeLocation |-> IndexOf(text, ChallengeKey),
                 responseTypeLocation |-> IndexOf(text, ResponseTypeKey)]>>]
    /\ UNCHANGED <<pipelineVars, pollVars, codecIn, coilVars, appVars>>

ParseSignatureStep ==
    /\ codecOut.parsed = <<>>
    /\ codecOut' = [codecOut EXCEPT
                       !.parsed = <<ParseSignature(codecIn.signatureBytes)>>]
    /\ UNCHANGED <<pipelineVars, pollVars, codecIn, coilVars, appVars>>

SignatureRSStep ==
    /\ codecOut.formatted = <<>>
    /\ codecOut' = [codecOut EXCEPT
                       !.formatted = <<SignatureRS(codecIn.signatureBytes)>>]
    /\ UNCHANGED <<pipelineVars, pollVars, codecIn, coilVars, appVars>>

SignerChallengeStep ==
    /\ codecOut.challenge = <<>>
    /\ codecOut' = [codecOut EXCEPT
                       !.challenge = <<SignerChallenge(codecIn.userOpHash)>>]
    /\ UNCHANGED <<pipelineVars, pollVars, codecIn, coilVars, appVars>>

\* the challenge text is decoded again
FromBase64urlToBytesStep ==
    /\ codecOut.challenge /= <<>>
    /\ codecOut.challengeBytes = <<>>
    /\ codecOut' = [codecOut EXCEPT !.challengeBytes =
                       <<FromBase64urlToBytes(codecOut.challenge[1])>>]
    /\ UNCHANGED <<pipelineVars, pollVars, codecIn, coilVars, appVars>>

\* ------------------------------------------------------------- the poll
\* a variant of the loop's guard that lets one more attempt in
PollContinuesOneMore(n) == n <= MaxAttempts

\* while (attempts < maxAttempts)
PollContinues(n) == n < MaxAttempts

\* balanceUpdated = currentBalance <= expectedNewBalance
BalanceUpdated(currentBalance, expected) == currentBalance <= expected

\* a variant that reports success only after a refresh that worked
ToastOnlyIfRefreshed(refreshed) == refreshed

\* setShowSuccessToast(true) after the final refresh, whatever it did
ToastAfterRefresh(refreshed) == TRUE

\* waitForConfirmation up to its balance reads, and their answer
PollAttempt(scene, env) ==
    /\ pollPc[scene] = "loop"
    /\ PollContinues(attempts[scene])
    /\ attempts' = [attempts EXCEPT ![scene] = attempts[scene] + 1]
    /\ \E currentBalance \in env.balances :
        /\ lastRead' = [lastRead EXCEPT ![scene] = currentBalance]
        /\ IF /\ currentBalance /= NoData
              /\ BalanceUpdated(currentBalance, expectedNewBalance[scene])
           THEN /\ pollPc' = [pollPc EXCEPT ![scene] = "getTransfers"]
                /\ firstSeen' = [firstSeen EXCEPT ![scene] =
                                    IF firstSeen[scene] = 0 THEN attempts[scene] + 1
                                    ELSE firstSeen[scene]]
           ELSE /\ pollPc' = [pollPc EXCEPT ![scene] = "wait"]
                /\ UNCHANGED firstSeen
    /\ UNCHANGED <<pipelineVars, codecVars, coilVars, appVars, isConfirming, showSuccessToast, clock,
                   refreshes, refreshFailed, expectedNewBalance, dispatched>>

DispatchesBeforeReads(resolved) == 1
\* tokenSlice.dispatch(setBalance(...)); tokenSlice.dispatch(
\* prependTransactions(transfers)): the statements after the awaited reads,
\* reached when they resolved
DispatchesAfterReads(resolved) == IF resolved THEN 1 ELSE 0

\* waitForConfirmation after an updated balance: getTransfers answers or rejects
GetTransfersStep(scene, env) ==
    /\ pollPc[scene] = "getTransfers"
    /\ \E fetched \in env.transfers :
        /\ dispatched' = [dispatched EXCEPT
                             ![scene] = @ + DispatchesAfterReads(fetched)]
        /\ IF fetched
           THEN /\ isConfirming' = [isConfirming EXCEPT ![scene] = FALSE]
                /\ showSuccessToast' = [showSuccessToast EXCEPT ![scene] = TRUE]
                /\ pollPc' = [pollPc EXCEPT ![scene] = "done"]
           ELSE /\ pollPc' = [pollPc EXCEPT ![scene] = "wait"]
                /\ UNCHANGED <<isConfirming, showSuccessToast>>
    /\ UNCHANGED <<pipelineVars, codecVars, coilVars, appVars, attempts, clock, lastRead, firstSeen,
                   refreshes, refreshFailed, expectedNewBalance>>

\* await new Promise(resolve => setTimeout(resolve, pollInterval))
PollWait(scene) ==
    /\ pollPc[scene] = "wait"
    /\ clock' = [clock EXCEPT ![scene] = clock[scene] + PollInterval]
    /\ pollPc' = [pollPc EXCEPT ![scene] = "loop"]
    /\ UNCHANGED <<pipelineVars, codecVars, coilVars, appVars, isConfirming, showSuccessToast, attempts,
                   lastRead, firstSeen, refreshes, refreshFailed,
                   expectedNewBalance, dispatched>>

\* the loop is left: the final refresh in its try, then
\* setIsConfirming(false); setShowSuccessToast(true)
FinalRefresh(scene, env) ==
    /\ pollPc[scene] = "loop"
    /\ ~PollContinues(attempts[scene])
    /\ refreshes' = [refreshes EXCEPT ![scene] = refreshes[scene] + 1]
    /\ \E refreshed \in env.transfers :
        /\ refreshFailed' = [refreshFailed EXCEPT ![scene] = ~refreshed]
        /\ dispatched' = [dispatched EXCEPT
                             ![scene] = @ + DispatchesAfterReads(refreshed)]
        /\ showSuccessToast' = [showSuccessToast EXCEPT
                                   ![scene] = ToastAfterRefresh(refreshed)]
    /\ isConfirming' = [isConfirming EXCEPT ![scene] = FALSE]
    /\ pollPc' = [pollPc EXCEPT ![scene] = "done"]
    /\ UNCHANGED <<pipelineVars, codecVars, coilVars, appVars, attempts, clock, lastRead, firstSeen,
                   expectedNewBalance>>

\* Alert.alert('Error', ...) of handleSend's catch
AlertShown(scene) == \E p \in TwoSlots : owner[p] = scene /\ pc[p] = "rejected"

\* ------------------------------------------------------------- wallet creation
\* the rawId of the passkey made for a key
RawIdOf(publicKey) == <<"rawId", publicKey>>

\* the button of WalletCreationScreen takes presses unless disabled
CreateEnabled == ~creation.isCreating

\* handleCreateWallet to its first await: setIsCreating(true);
\* webAuthnService.createPasskey('My Wallet')
HandleCreateWallet ==
    /\ CreateEnabled
    /\ creation.pc = "idle"
    /\ creation' = [creation EXCEPT !.pc = "createPasskey", !.isCreating = TRUE,
                                    !.publicKey = NoKey, !.rawId = "none",
                                    !.walletAddress = "none", !.steps = <<>>]
    /\ UNCHANGED <<app, pipelineVars, pollVars, codecVars, coilVars, tokenVars,
                   proxyVars>>

\* catch and finally of handleCreateWallet: Alert.alert; setIsCreating(false)
CreationFails ==
    /\ creation' = [creation EXCEPT !.pc = "idle", !.isCreating = FALSE,
                                    !.alerts = 1]
    /\ UNCHANGED app

\* createPasskey settles
CreatePasskeyStep(resolved, publicKey) ==
    /\ creation.pc = "createPasskey"
    /\ IF resolved
       THEN /\ creation' = [creation EXCEPT
                               !.pc = "getWalletAddress",
                               !.publicKey = publicKey,
                               !.rawId = RawIdOf(publicKey),
                               !.steps = Append(@, "createPasskey")]
            /\ UNCHANGED app
       ELSE CreationFails
    /\ UNCHANGED <<pipelineVars, pollVars, codecVars, coilVars, tokenVars,
                   proxyVars>>

\* getWalletAddress settles; resolved, the handler calls
\* deployWalletAndClaimWelcomeBonus(publicKey, rawId), which runs to its
\* first await
GetWalletAddressStep(p, resolved) ==
    /\ creation.pc = "getWalletAddress"
    /\ IF resolved
       THEN /\ creation' = [creation EXCEPT
                               !.pc = "deployWalletAndClaimWelcomeBonus",
                               !.walletAddress =
                                   GetSmartWalletAddress(creation.publicKey),
                               !.steps = Append(@, "getWalletAddress")]
            /\ Start(p, [NoCall EXCEPT
                            !.usecase = "deployWalletAndClaimWelcomeBonus",
                            !.publicKey = creation.publicKey],
                     "getSmartWalletAddress", "WalletCreationScreen")
            /\ UNCHANGED <<app, isSending>>
       ELSE /\ CreationFails
            /\ UNCHANGED <<pipelineVars, pollVars, codecVars, coilVars,
                           tokenVars, proxyVars>>

StepAfterDeployRegardless(settled) == "timeout"
\* the await of deployWalletAndClaimWelcomeBonus: on when it resolved, to
\* the catch when it rejected
StepAfterDeploy(settled) == IF settled = "resolved" THEN "timeout" ELSE "catch"

\* deployWalletAndClaimWelcomeBonus settled: the handler goes on to the
\* 15 s timeout, or to its catch
DeploySettledStep(p) ==
    /\ creation.pc = "deployWalletAndClaimWelcomeBonus"
    /\ owner[p] = "WalletCreationScreen"
    /\ pc[p] \in {"resolved", "rejected"}
    /\ IF StepAfterDeploy(pc[p]) = "timeout"
       THEN /\ creation' = [creation EXCEPT
                               !.pc = "timeout",
                               !.steps = Append(@, "deployWalletAndClaimWelcomeBonus")]
            /\ UNCHANGED app
       ELSE CreationFails
    /\ UNCHANGED <<pipelineVars, pollVars, codecVars, coilVars, tokenVars,
                   proxyVars>>

\* the 15 s are over: setPersistData(DataPersistKeys.USER, userData) is called
CreationTimeoutStep ==
    /\ creation.pc = "timeout"
    /\ creation' = [creation EXCEPT !.pc = "setPersistData",
                                    !.steps = Append(@, "timeout")]
    /\ UNCHANGED <<app, pipelineVars, pollVars, codecVars, coilVars, tokenVars,
                   proxyVars>>

\* setPersistData settles; resolved, the record is stored and the handler
\* dispatches setUser and setLoggedIn(true) and pushes /wallet-home
SetPersistDataStep(resolved) ==
    /\ creation.pc = "setPersistData"
    /\ IF resolved
       THEN LET userData == [passkeyRawId |-> creation.rawId,
                             walletAddress |-> creation.walletAddress]
            IN /\ app' = [app EXCEPT !.persisted = userData, !.user = userData,
                                     !.loggedIn = TRUE]
               /\ creation' = [creation EXCEPT
                                  !.pc = "idle", !.isCreating = FALSE,
                                  !.steps = Append(@, "setPersistData"),
                                  !.route = "/wallet-home"]
       ELSE CreationFails
    /\ UNCHANGED <<pipelineVars, pollVars, codecVars, coilVars, tokenVars,
                   proxyVars>>

\* useAppInitializer: getPersistData settles
LoadPersistedUserStep(resolved) ==
    /\ app.loadPc = "getPersistData"
    /\ app' = IF resolved /\ app.persisted.walletAddress /= "none"
              THEN [app EXCEPT !.user = app.persisted, !.loggedIn = TRUE,
                               !.isLoading = FALSE, !.loadPc = "done"]
              ELSE [app EXCEPT !.loggedIn = FALSE, !.isLoading = FALSE,
                               !.loadPc = "done"]
    /\ UNCHANGED <<creation, pipelineVars, pollVars, codecVars, coilVars,
                   tokenVars, proxyVars>>

Step(p, env) ==
    \/ InvokeDeployWallet(p, env)
    \/ InvokeDeployWalletAndClaimWelcomeBonus(p, env)
    \/ InvokeSendTokens(p, env)
    \/ InvokeExecuteUserOperation(p, env)
    \/ \E scene \in env.scenes : HandleSend(scene, p, env)
    \/ GetSmartWalletAddressStep(p)
    \/ IsWalletDeployedStep(p)
    \/ GetNonceStep(p)
    \/ GetGasPricesStep(p, env)
    \/ SponsorStep(p, env)
    \/ SponsorFails(p)
    \/ EstimateStep(p, env)
    \/ EstimateFails(p)
    \/ GetUserOpHashStep(p)
    \/ SignChallengeStep(p)
    \/ SubmitStep(p)
    \/ ReadRejects(p)

\* one invocation at a time, every answer of the environment
Next == (\E p \in OneSlot : Step(p, WideEnv)) \/ EntryPointHandleOps

Spec == Init /\ [][Next]_vars

\* two overlapping invocations, one answer per oracle
NextConcurrent == (\E p \in TwoSlots : Step(p, NarrowEnv)) \/ EntryPointHandleOps

SpecConcurrent == Init /\ [][NextConcurrent]_vars

\* a send from a SendScene mount, and the poll that follows it
SceneStep(p, env) ==
    \/ \E scene \in env.scenes : HandleSend(scene, p, env)
    \/ IsWalletDeployedStep(p)
    \/ GetNonceStep(p)
    \/ GetGasPricesStep(p, env)
    \/ SponsorStep(p, env)
    \/ GetUserOpHashStep(p)
    \/ SignChallengeStep(p)
    \/ SubmitStep(p)

PollStep(scene, env) ==
    \/ PollAttempt(scene, env)
    \/ GetTransfersStep(scene, env)
    \/ PollWait(scene)
    \/ FinalRefresh(scene, env)

NextConfirm ==
    \/ \E p \in OneSlot : SceneStep(p, ConfirmEnv)
    \/ \E scene \in Scenes : PollStep(scene, ConfirmEnv)

SpecConfirm == Init /\ [][NextConfirm]_vars

NextCodec ==
    \/ LocateKeys
    \/ ParseSignatureStep
    \/ SignatureRSStep
    \/ SignerChallengeStep
    \/ FromBase64urlToBytesStep

SpecCodec == InitCodec /\ [][NextCodec]_vars

\* the token alone: any caller, any call, from the constructor's storage or
\* from one where accounts outside Users claimed 2,970,296 welcome bonuses

InitCoil ==
    /\ PipelineInit
    /\ code = [w \in Wallets |-> ContractCode]
    /\ codecIn = [assertion |-> "assertionA", signatureBytes |-> <<>>,
                  userOpHash |-> <<>>]
    /\ codecOut = NoCodecOutput
    /\ coil \in {Constructed(0), Constructed(WELCOME_BONUS_AMOUNT * 2970296)}
    /\ coilCall = NoCoilCall
    /\ bonusMints = [u \in Users |-> 0]
    /\ ScreensInit

NextCoil ==
    \/ \E sender \in Users : DistributeWelcomeBonus(sender)
    \/ \E sender \in {"orgsDistributor", "user1"},
          args \in ({"user1"} \X {0, 1, ORGS_ALLOCATION}) \cup {<<ZeroAddress, 1>>} :
          DistributeOrgs(sender, args[1], args[2])
    \/ \E sender \in {"minter", "user1"},
          args \in ({"user1"} \X {0, 1, GOVERNANCE_ALLOCATION})
                     \cup {<<ZeroAddress, 1>>} :
          DistributeGovernance(sender, args[1], args[2])
    \/ \E sender \in {"couponCreator", "user1"},
          args \in ({Keccak256("GET50")} \X {0, 50, GOVERNANCE_ALLOCATION})
                     \cup {<<ZeroHash, 50>>} :
          UpdateCoupon(sender, args[1], args[2])
    \/ \E sender \in Users, couponCode \in CouponCodes : Redeem(sender, couponCode)
    \/ \E sender \in {"pauser", "user1"} : Pause(sender)
    \/ \E sender \in {"pauser", "user1"} : Unpause(sender)
    \/ \E sender \in Users, to \in {"user2", ZeroAddress}, amount \in {50} :
          Transfer(sender, to, amount)
    \/ \E sender \in {"owner", "user1"}, role \in Roles \ {"DEFAULT_ADMIN_ROLE"} :
          GrantRole(sender, role, "user1")
    \/ \E sender \in {"owner", "user1"}, role \in Roles \ {"DEFAULT_ADMIN_ROLE"} :
          \E account \in Constructed(0).roles[role] \cup {"user1"} :
             RevokeRole(sender, role, account)

SpecCoil == InitCoil /\ [][NextCoil]_vars

\* the reducers alone: any dispatch with a payload free of duplicates
NextSlice ==
    \/ \E payload \in DuplicateFreePayloads :
          DispatchAction("setTransactions", payload)
    \/ \E payload \in DuplicateFreePayloads :
          DispatchAction("prependTransactions", payload)
    \/ \E payload \in DuplicateFreePayloads :
          DispatchAction("appendTransactions", payload)
    \/ \E balance \in {0, WELCOME_BONUS_AMOUNT} :
          DispatchAction("setBalance", BalancePayload(balance))
    \/ \E flag \in BOOLEAN : DispatchAction("setLoadingTransactions", flag)

SpecSlice == Init /\ [][NextSlice]_vars

\* the home screen from its mount, the confirmation of a send over it, and
\* the chain
NextHome ==
    \/ \E direction \in {"none", "received", "self"} : MineBlock(direction)
    \/ HomeMounts
    \/ \E resolved \in BOOLEAN, balance \in ChainBalances :
          FetchBalanceStep(resolved, balance)
    \/ \E resolved \in BOOLEAN : FetchTransfersStep(resolved)
    \/ PollEffectReruns
    \/ PollTick
    \/ \E resolved \in BOOLEAN, balance \in ChainBalances :
          PollBalanceStep(resolved, balance)
    \/ \E resolved \in BOOLEAN : PollCurrentBlockStep(resolved)
    \/ \E resolved \in BOOLEAN : PollTransfersStep(resolved)
    \/ \E balance \in ChainBalances : ConfirmationUpdate(balance)

SpecHome == Init /\ [][NextHome]_vars

\* wallet creation from the first start of the app, and the chain
CreationStep(p, env) ==
    \/ HandleCreateWallet
    \/ \E resolved \in BOOLEAN, publicKey \in env.keys :
          CreatePasskeyStep(resolved, publicKey)
    \/ \E resolved \in BOOLEAN : GetWalletAddressStep(p, resolved)
    \/ DeploySettledStep(p)
    \/ CreationTimeoutStep
    \/ \E resolved \in BOOLEAN : SetPersistDataStep(resolved)
    \/ \E resolved \in BOOLEAN : LoadPersistedUserStep(resolved)

DeployStep(p, env) ==
    \/ GetSmartWalletAddressStep(p)
    \/ GetNonceStep(p)
    \/ GetGasPricesStep(p, env)
    \/ SponsorStep(p, env)
    \/ SponsorFails(p)
    \/ GetUserOpHashStep(p)
    \/ SignChallengeStep(p)
    \/ SubmitStep(p)
    \/ ReadRejects(p)

NextCreate ==
    \/ \E p \in OneSlot : CreationStep(p, NarrowEnv) \/ DeployStep(p, NarrowEnv)
    \/ EntryPointHandleOps

SpecCreate == Init /\ [][NextCreate]_vars

\* every await of the handler and of the use-case settles
SpecCreateFair == SpecCreate /\ WF_vars(NextCreate)

\* the proxy alone, started just now or after nine bundler requests
InitProxy ==
    /\ PipelineInit
    /\ codecIn = [assertion |-> "assertionA", signatureBytes |-> <<>>,
                  userOpHash |-> <<>>]
    /\ codecOut = NoCodecOutput
    /\ CoilConstructed
    /\ HomeInit
    /\ CreationInit
    /\ privacyMetrics \in {Metrics(0), Metrics(9)}
    /\ proxied = [now |-> 9, received |-> 0,
                  requests |-> [slot \in ProxySlots |-> NoRequest]]
    /\ forwarded = {}

NextProxy ==
    \E slot \in ProxySlots :
        \/ \E requestType \in {"bundler", "paymaster"}, rpcRequest \in Bodies :
              ReceivePost(slot, requestType, rpcRequest)
        \/ \E resolved \in BOOLEAN : IpCheckStep(slot, resolved)
        \/ \E resolved \in BOOLEAN : UpstreamStep(slot, resolved)
        \/ \E elapsed \in {0, 1} : RandomDelayStep(slot, elapsed)

SpecProxy == InitProxy /\ [][NextProxy]_vars

\* the event loop runs a pending continuation or timer of the poll
SpecConfirmFair ==
    SpecConfirm /\ \A scene \in Scenes : WF_vars(PollStep(scene, ConfirmEnv))

\* ------------------------------------------------------------- properties
ValueOf(p, field) ==
    IF call[p].usecase = "executeUserOperation" THEN field ELSE HexValue(field)

SameButSignature(a, b) ==
    [a EXCEPT !.signature = EmptyBytes] = [b EXCEPT !.signature = EmptyBytes]

\* C1: the hash that is signed is read once nonce, initCode, callData, the
\* gas limits, the fees and paymasterAndData are final (the nonce and fee
\* reads and the gas stage are over, and no field changes afterwards), and
\* the operation sent to eth_sendUserOperation is the hashed operation with
\* another signature field and nothing else changed.
C1_SignedAfterFinal ==
    \A p \in TwoSlots :
        /\ hashedOp[p] /= <<>> =>
              /\ observed[p].nonce /= <<>>
              /\ observed[p].fees /= <<>>
              /\ observed[p].gasPath /= "none"
              /\ userOp[p] = hashedOp[p]
              /\ hashedOp[p][1].signature = EmptyBytes
        /\ signedUserOp[p] /= <<>> =>
              /\ hashedOp[p] /= <<>>
              /\ SameButSignature(signedUserOp[p][1], hashedOp[p][1])
        /\ sentOp[p] /= <<>> =>
              /\ hashedOp[p] /= <<>>
              /\ SameButSignature(sentOp[p][1],
                                  WireOp(call[p].usecase, hashedOp[p][1]))

C1_Witness ==
    \E p \in TwoSlots :
        /\ pc[p] = "resolved"
        /\ call[p].usecase = "sendTokens"
        /\ sentOp[p] /= <<>>
        /\ sentOp[p][1].signature /= EmptyBytes
        /\ sentOp[p][1].paymasterAndData /= EmptyBytes

\* C2: when the passkey prompt yields no assertion or rejects, the use-case
\* rejects, eth_sendUserOperation is not requested for that invocation and
\* the signer was prompted exactly once.
C2_CancelAborts ==
    \A p \in TwoSlots :
        observed[p].prompt \in {<<"null">>, <<"rejects">>} =>
            /\ pc[p] = "rejected"
            /\ failedAt[p] = "signChallenge"
            /\ signedUserOp[p] = <<>>
            /\ sentOp[p] = <<>>
            /\ prompts[p] = 1

C2_Witness ==
    \E p \in TwoSlots :
        /\ observed[p].prompt = <<"null">>
        /\ pc[p] = "rejected"
        /\ hashedOp[p] /= <<>>

\* C3: two invocations for one sender never overlap: no two invocations in
\* flight for the same wallet address have both read the nonce, so no two
\* in-flight operations of one sender carry the same nonce.
C3_NeverOverlap ==
    \A p, q \in TwoSlots :
        (p /= q /\ InFlight(p) /\ InFlight(q)
            /\ local[p].walletAddress = local[q].walletAddress)
        => ~(observed[p].nonce /= <<>> /\ observed[q].nonce /= <<>>)

\* C4: the operation an invocation builds and submits carries the nonce the
\* entry point answered to that invocation's own getNonce read (the reads
\* of an invocation start empty), its own fee read and its own sender.
C4_OwnNonce ==
    \A p \in TwoSlots :
        /\ userOp[p] /= <<>> =>
              /\ observed[p].nonce /= <<>>
              /\ ValueOf(p, userOp[p][1].nonce) = observed[p].nonce[1]
              /\ observed[p].fees /= <<>>
              /\ observed[p].fees[1].maxFeePerGas > 0 =>
                    ValueOf(p, userOp[p][1].maxFeePerGas) =
                        observed[p].fees[1].maxFeePerGas
              /\ userOp[p][1].sender = local[p].walletAddress
        /\ sentOp[p] /= <<>> =>
              /\ HexValue(sentOp[p][1].nonce) = observed[p].nonce[1]
              /\ sentOp[p][1].sender = local[p].walletAddress

C4_Witness ==
    \E p \in TwoSlots :
        /\ invocations >= 2
        /\ sentOp[p] /= <<>>
        /\ observed[p].nonce[1] >= 1
        /\ HexValue(sentOp[p][1].nonce) = chainNonce[sentOp[p][1].sender]

\* C5: buildUserOperation never rejects at the gas estimate; when the
\* estimate fails the operation carries callGasLimit 150000,
\* preVerificationGas 75000 and verificationGasLimit 200000 (deployed) or
\* 400000 (undeployed): all non-zero, the undeployed one higher.
C5_FallbackGas ==
    \A p \in TwoSlots :
        /\ failedAt[p] /= "estimate"
        /\ observed[p].gasPath = "fallback" =>
              /\ userOp[p] /= <<>>
              /\ userOp[p][1].callGasLimit = 150000
              /\ userOp[p][1].preVerificationGas = 75000
              /\ userOp[p][1].verificationGasLimit =
                    IF observed[p].codeAtInit[1] THEN 200000 ELSE 400000

C5_Witness ==
    \E p \in TwoSlots :
        /\ observed[p].gasPath = "fallback"
        /\ ~observed[p].codeAtInit[1]
        /\ userOp[p][1].verificationGasLimit = 400000
        /\ pc[p] = "resolved"

\* C6: a failed pm_sponsorUserOperation does not fail the
\* use-case; the build goes on to signing with fixed gas constants.
C6_SponsorFailureFallsBack ==
    \A p \in TwoSlots :
        (sponsorRequest[p] /= <<>> /\ observed[p].sponsorship = <<>>) =>
            /\ failedAt[p] /= "sponsor"
            /\ pc[p] /= "rejected"

\* C7: after a pm_sponsorUserOperation answer the operation's callGasLimit,
\* verificationGasLimit, preVerificationGas and paymasterAndData are the
\* answer's, and sender, nonce, initCode, callData and both fees are those
\* of the operation that was sent for sponsorship.
C7_SponsorshipVerbatim ==
    \A p \in TwoSlots :
        observed[p].sponsorship /= <<>> =>
            LET op == userOp[p][1]
                answer == observed[p].sponsorship[1]
                before == sponsorRequest[p][1]
            IN /\ op.callGasLimit = answer.callGasLimit
               /\ op.verificationGasLimit = answer.verificationGasLimit
               /\ op.preVerificationGas = answer.preVerificationGas
               /\ op.paymasterAndData = answer.paymasterAndData
               /\ op.sender = before.sender
               /\ op.nonce = before.nonce
               /\ op.initCode = before.initCode
               /\ op.callData = before.callData
               /\ op.maxFeePerGas = before.maxFeePerGas
               /\ op.maxPriorityFeePerGas = before.maxPriorityFeePerGas

C7_Witness ==
    \E p \in TwoSlots :
        /\ observed[p].sponsorship /= <<>>
        /\ sponsorRequest[p][1].callGasLimit = EmptyBytes
        /\ userOp[p][1].callGasLimit = ToHex(21000)
        /\ pc[p] = "resolved"

\* C8: on the estimate path each gas field g of the built operation is
\* floor(e * 150 / 100) for the bundler's estimate e of that field:
\* 100 g <= 150 e < 100 (g + 1).
IsFloorOfMargin(g, e) == 100 * g <= 150 * e /\ 150 * e < 100 * (g + 1)

C8_SafetyMargin ==
    \A p \in TwoSlots :
        observed[p].gasPath = "estimated" =>
            LET op == userOp[p][1]
                e == observed[p].estimate[1]
            IN /\ IsFloorOfMargin(op.callGasLimit, HexValue(e.callGasLimit))
               /\ IsFloorOfMargin(op.verificationGasLimit,
                                  HexValue(e.verificationGasLimit))
               /\ IsFloorOfMargin(op.preVerificationGas,
                                  HexValue(e.preVerificationGas))

C8_Witness ==
    \E p \in TwoSlots :
        /\ observed[p].gasPath = "estimated"
        /\ HexValue(observed[p].estimate[1].callGasLimit) = 33333
        /\ userOp[p][1].callGasLimit = 49999

\* C9: once the fee oracle has answered, an operation is built
\* whose fee fields are non-zero, 20 gwei and 1 gwei where the oracle gave
\* no value.
C9_FeeFloor ==
    \A p \in TwoSlots :
        observed[p].fees /= <<>> =>
            /\ userOp[p] /= <<>>
            /\ ValueOf(p, userOp[p][1].maxFeePerGas) > 0
            /\ ValueOf(p, userOp[p][1].maxPriorityFeePerGas) > 0
            /\ observed[p].fees[1].maxFeePerGas = NoData =>
                  ValueOf(p, userOp[p][1].maxFeePerGas) = 20
            /\ observed[p].fees[1].maxPriorityFeePerGas = NoData =>
                  ValueOf(p, userOp[p][1].maxPriorityFeePerGas) = 1

\* C10 as stated: every built operation has initCode '0x' when the sender
\* has code and factoryAddress + createAccount(publicKey) when it has none.
C10_InitCodeByDeployment ==
    \A p \in TwoSlots :
        userOp[p] /= <<>> =>
            userOp[p][1].initCode =
                IF observed[p].codeAtInit[1] THEN EmptyBytes
                ELSE <<"factoryAddress", "createAccount", call[p].publicKey>>

\* C10 as amended: buildUserOperation and sendTokens set initCode by the
\* deployment status they read ('0x' with code, factoryAddress +
\* createAccount(publicKey) without); deployWallet and
\* deployWalletAndClaimWelcomeBonus read no deployment status and always set
\* factoryAddress + createAccount(publicKey).
C10_InitCodeByUseCase ==
    \A p \in TwoSlots :
        userOp[p] /= <<>> =>
            userOp[p][1].initCode =
                IF /\ call[p].usecase \in {"sendTokens", "executeUserOperation"}
                   /\ observed[p].codeAtInit[1]
                THEN EmptyBytes
                ELSE <<"factoryAddress", "createAccount", call[p].publicKey>>

C10_Witness ==
    \E p \in TwoSlots :
        /\ call[p].usecase = "deployWallet"
        /\ observed[p].codeAtInit = <<TRUE>>
        /\ userOp[p] /= <<>>
        /\ userOp[p][1].initCode /= EmptyBytes

Count(seq, e) == Cardinality({i \in DOMAIN seq : seq[i] = e})

IsPrefix(a, b) == Len(a) <= Len(b) /\ a = SubSeq(b, 1, Len(a))

\* C11: sendTokens builds with initCode '0x' for a sender with code and with
\* the factory's initCode for a sender without code whose publicKey was
\* passed; without the publicKey it rejects with 'publicKey required for
\* undeployed wallet' having done nothing but the deployment check (no nonce
\* read, paymaster request, prompt or submission); an invocation that
\* resolved has signed once and submitted once.
C11_SendTokensBranches ==
    \A p \in TwoSlots :
        call[p].usecase = "sendTokens" =>
            /\ userOp[p] /= <<>> =>
                  /\ observed[p].codeAtInit[1] => userOp[p][1].initCode = EmptyBytes
                  /\ ~observed[p].codeAtInit[1] =>
                        /\ call[p].publicKey /= NoKey
                        /\ userOp[p][1].initCode =
                              <<"factoryAddress", "createAccount", call[p].publicKey>>
            /\ (observed[p].codeAtInit = <<FALSE>> /\ call[p].publicKey = NoKey) =>
                  /\ pc[p] = "rejected"
                  /\ failedAt[p] = "publicKey required"
                  /\ history[p] = <<"isWalletDeployed">>
                  /\ observed[p].nonce = <<>>
                  /\ sponsorRequest[p] = <<>>
                  /\ prompts[p] = 0
                  /\ sentOp[p] = <<>>
            /\ pc[p] = "resolved" =>
                  /\ Count(history[p], "signChallenge") = 1
                  /\ Count(history[p], "eth_sendUserOperation") = 1

C11_Witness ==
    \E p \in TwoSlots :
        /\ call[p].usecase = "sendTokens"
        /\ call[p].publicKey = NoKey
        /\ observed[p].codeAtInit = <<FALSE>>
        /\ failedAt[p] = "publicKey required"

\* C12 as stated: the stages of a build come in the order address
\* resolution, deployment check, call-data construction, gas estimation,
\* fee setting.
IsClaimedStage(e) ==
    e \in {"getSmartWalletAddress", "isWalletDeployed", "callData",
           "eth_estimateUserOperationGas", "getGasPrices"}

C12_ClaimedOrder ==
    \A p \in TwoSlots :
        call[p].usecase = "executeUserOperation" =>
            IsPrefix(SelectSeq(history[p], IsClaimedStage),
                     <<"getSmartWalletAddress", "isWalletDeployed", "callData",
                       "eth_estimateUserOperationGas", "getGasPrices">>)

\* C12 as amended: a build passes through address resolution, deployment
\* check, nonce read, call-data construction, fee read and gas estimation in
\* exactly that order, skipping none, before the unsigned operation is
\* returned to be hashed and signed.
C12_BuildOrder ==
    \A p \in TwoSlots :
        call[p].usecase = "executeUserOperation" =>
            /\ IsPrefix(history[p],
                        <<"getSmartWalletAddress", "isWalletDeployed", "getNonce",
                          "callData", "getGasPrices", "eth_estimateUserOperationGas",
                          "getUserOperationHash", "signChallenge",
                          "eth_sendUserOperation">>)
            /\ hashedOp[p] /= <<>> => Len(history[p]) >= 7

C12_Witness ==
    \E p \in TwoSlots :
        /\ call[p].usecase = "executeUserOperation"
        /\ observed[p].gasPath = "estimated"
        /\ Len(history[p]) = 6
        /\ pc[p] = "getUserOpHash"

\* C13: a failure of any step but the gas estimate rejects the use-case
\* with the failed stage and no eth_sendUserOperation request is made; a
\* use-case that resolved has had its operation submitted.
C13_FailuresSurface ==
    \A p \in TwoSlots :
        /\ failedAt[p] \in {"getSmartWalletAddress", "isWalletDeployed", "getNonce",
                            "getGasPrices", "getUserOpHash", "publicKey required",
                            "signChallenge", "formatWebAuthnSignature"} =>
              /\ pc[p] = "rejected"
              /\ sentOp[p] = <<>>
              /\ Count(history[p], "eth_sendUserOperation") = 0
        /\ pc[p] = "rejected" <=> failedAt[p] /= "none"
        /\ pc[p] = "resolved" =>
              /\ sentOp[p] /= <<>>
              /\ history[p][Len(history[p])] = "eth_sendUserOperation"

C13_Witness ==
    \E p \in TwoSlots :
        /\ call[p].usecase = "deployWallet"
        /\ failedAt[p] = "getNonce"
        /\ pc[p] = "rejected"
        /\ history[p] = <<"getSmartWalletAddress">>

\* C14: an invocation requests each of pm_sponsorUserOperation,
\* eth_estimateUserOperationGas and eth_sendUserOperation at most once, and
\* after a failed request it makes no further request.
C14_NoRetry ==
    \A p \in TwoSlots :
        /\ \A method \in {"pm_sponsorUserOperation", "eth_estimateUserOperationGas",
                          "eth_sendUserOperation"} :
              Count(history[p], method) <= 1
        /\ failedAt[p] = "sponsor" =>
              history[p][Len(history[p])] = "pm_sponsorUserOperation"
        /\ failedAt[p] = "submit" =>
              history[p][Len(history[p])] = "eth_sendUserOperation"
        /\ observed[p].gasPath = "fallback" =>
              Count(history[p], "eth_estimateUserOperationGas") = 1

C14_Witness ==
    \E p \in TwoSlots :
        /\ failedAt[p] = "submit"
        /\ pc[p] = "rejected"
        /\ Count(history[p], "eth_sendUserOperation") = 1


\* ---------------------------------------------------------------- C15
\* C15 as stated: the poll stops at the first attempt that observes a
\* balance at or below the expected one.
C15_StopsAtFirstSeen ==
    \A scene \in Scenes :
        firstSeen[scene] /= 0 =>
            /\ attempts[scene] = firstSeen[scene]
            /\ pollPc[scene] \in {"getTransfers", "done"}

\* the waits that have completed when the poll stands at a position
WaitsDone(scene) ==
    IF pollPc[scene] \in {"idle", "loop"} \/ refreshes[scene] > 0
    THEN attempts[scene]
    ELSE attempts[scene] - 1

\* C15: the poll makes at most MaxAttempts balance reads, a fixed
\* PollInterval apart; it stops with a confirmation only at an attempt that
\* read a balance at or below the expected one and fetched the transfers
\* (an attempt whose transfer fetch rejects counts as unconfirmed and the
\* poll goes on), and otherwise only after attempt MaxAttempts.
C15_PollBounded ==
    \A scene \in Scenes :
        /\ attempts[scene] <= MaxAttempts
        /\ clock[scene] = PollInterval * WaitsDone(scene)
        /\ pollPc[scene] = "getTransfers" =>
              BalanceUpdated(lastRead[scene], expectedNewBalance[scene])
        /\ (pollPc[scene] = "done" /\ refreshes[scene] = 0) =>
              /\ lastRead[scene] /= NoData
              /\ BalanceUpdated(lastRead[scene], expectedNewBalance[scene])
              /\ firstSeen[scene] \in 1..attempts[scene]
        /\ refreshes[scene] > 0 =>
              (attempts[scene] = MaxAttempts /\ pollPc[scene] = "done")

\* C15: the bounds above always hold, and a poll that started always ends.
C15_PollTerminates ==
    /\ []C15_PollBounded
    /\ \A scene \in Scenes : isConfirming[scene] ~> (pollPc[scene] = "done")

\* a poll that saw the expected balance, lost the transfer fetch, went on
\* and confirmed at a later attempt
C15_Witness ==
    \E scene \in Scenes :
        /\ pollPc[scene] = "done"
        /\ refreshes[scene] = 0
        /\ firstSeen[scene] /= 0
        /\ firstSeen[scene] < attempts[scene]

\* ---------------------------------------------------------------- C16
\* C16: a poll that runs out of attempts makes exactly one final refresh
\* and, whether or not that refresh fails, clears the confirming state and
\* shows the success toast, never the error alert.
C16_ExhaustionReportsSuccess ==
    \A scene \in Scenes :
        /\ refreshes[scene] <= 1
        /\ (pollPc[scene] = "done" /\ firstSeen[scene] = 0) =>
              refreshes[scene] = 1
        /\ refreshes[scene] = 1 =>
              /\ ~isConfirming[scene]
              /\ showSuccessToast[scene]
              /\ ~AlertShown(scene)
        /\ refreshFailed[scene] => refreshes[scene] = 1

\* an exhausted poll whose final refresh failed
C16_Witness ==
    \E scene \in Scenes :
        /\ attempts[scene] = MaxAttempts
        /\ refreshes[scene] = 1
        /\ refreshFailed[scene]
        /\ pollPc[scene] = "done"


\* ---------------------------------------------------------------- C17
\* the needle stands somewhere in the text
Contains(text, needle) ==
    \E i \in 1..Len(text) :
        /\ i + Len(needle) - 1 <= Len(text)
        /\ \A k \in 1..Len(needle) : text[i + k - 1] = needle[k]

\* the needle stands in the text at the position (from 0)
StandsAt(text, needle, location) ==
    /\ location >= 0
    /\ location + Len(needle) <= Len(text)
    /\ \A k \in 1..Len(needle) : text[location + k] = needle[k]

\* the assertion's clientDataJSON lacks one of the two substrings
LacksKey(assertion) ==
    \/ ~Contains(ClientDataJSON(assertion), ChallengeKey)
    \/ ~Contains(ClientDataJSON(assertion), ResponseTypeKey)

\* the credentials of a signed operation point at the two substrings
LocationsFound(op) ==
    LET credentials == op.signature[3]
        text == ClientDataJSON(credentials.assertion)
    IN /\ StandsAt(text, ChallengeKey, credentials.challengeLocation)
       /\ StandsAt(text, ResponseTypeKey, credentials.responseTypeLocation)

\* C17: in both implementations, an assertion whose clientDataJSON lacks
\* "challenge":" or "type":"webauthn.get" makes the use-case reject at the
\* formatting, with nothing signed and nothing submitted; every signed or
\* submitted operation carries locations at which the substrings stand.
C17_MissingKeyFails ==
    \A p \in TwoSlots :
        /\ \A a \in Assertions :
              (observed[p].prompt = <<a>> /\ LacksKey(a)) =>
                  /\ pc[p] = "rejected"
                  /\ failedAt[p] = "formatWebAuthnSignature"
                  /\ signedUserOp[p] = <<>>
                  /\ sentOp[p] = <<>>
        /\ signedUserOp[p] /= <<>> => LocationsFound(signedUserOp[p][1])
        /\ sentOp[p] /= <<>> => LocationsFound(sentOp[p][1])

\* the service's formatter met a clientDataJSON without the challenge
C17_Witness ==
    \E p \in TwoSlots :
        /\ call[p].usecase = "sendTokens"
        /\ observed[p].prompt = <<"assertionNoChallenge">>
        /\ failedAt[p] = "formatWebAuthnSignature"
        /\ history[p][Len(history[p])] = "signChallenge"


IsBytes32Of(encoded, integer) ==
    /\ Len(encoded) = 32
    /\ BytesToNumber(ParseHexBytes(encoded)) = BytesToNumber(integer)

\* C19: for every valid DER signature, the encoded r and s of parseSignature
\* and of formatWebAuthnSignature are each exactly 32 bytes holding the
\* big-endian value of the corresponding DER integer.
C19_FixedWidth ==
    \A encoded \in {codecOut.parsed, codecOut.formatted} :
        encoded /= <<>> =>
            /\ IsBytes32Of(encoded[1].r, DerIntegers(codecIn.signatureBytes).r)
            /\ IsBytes32Of(encoded[1].s, DerIntegers(codecIn.signatureBytes).s)

\* C19 for formatWebAuthnSignature alone: its r and s are 32 bytes each and
\* hold the DER integers' values.
C19_FormatterFixedWidth ==
    codecOut.formatted /= <<>> =>
        /\ IsBytes32Of(codecOut.formatted[1].r,
                       DerIntegers(codecIn.signatureBytes).r)
        /\ IsBytes32Of(codecOut.formatted[1].s,
                       DerIntegers(codecIn.signatureBytes).s)

\* a signature whose r is 31 bytes behind a sign byte and whose s is 30
\* bytes, formatted
C19_Witness ==
    /\ codecOut.formatted /= <<>>
    /\ Len(DerIntegers(codecIn.signatureBytes).r) = 32
    /\ DerIntegers(codecIn.signatureBytes).r[1] = 0
    /\ Len(DerIntegers(codecIn.signatureBytes).s) = 30

\* ---------------------------------------------------------------- C20
\* C20: the challenge is the unpadded base64url text of 39 bytes (0x01, six
\* zero bytes, the 32-byte userOpHash), and fromBase64urlToBytes of that
\* text returns those 39 bytes.
C20_ChallengeRoundTrip ==
    /\ codecOut.challenge /= <<>> =>
          /\ Len(codecOut.challenge[1]) = 52
          /\ \A i \in 1..52 : codecOut.challenge[1][i] \notin {"=", "+", "/"}
          /\ Len(codecIn.userOpHash) = 32
    /\ codecOut.challengeBytes /= <<>> =>
          /\ Len(codecOut.challengeBytes[1]) = 39
          /\ codecOut.challengeBytes[1] =
                <<1, 0, 0, 0, 0, 0, 0>> \o codecIn.userOpHash

\* a decoded challenge whose text holds both '-' and '_'
C20_Witness ==
    /\ codecOut.challengeBytes /= <<>>
    /\ \E i, j \in 1..52 : /\ codecOut.challenge[1][i] = "-"
                           /\ codecOut.challenge[1][j] = "_"


C22_FirstOperation ==
    \A p \in TwoSlots :
        (/\ call[p].usecase = "executeUserOperation"
         /\ local[p].deployed = <<FALSE>>
         /\ observed[p].nonce = <<0>>) =>
            /\ userOp[p] /= <<>> =>
                  /\ userOp[p][1].initCode = GenerateInitCode(call[p].publicKey)
                  /\ userOp[p][1].initCode /= EmptyBytes
                  /\ userOp[p][1].nonce = 0
                  /\ userOp[p][1].callData =
                        <<"execute", call[p].to, ParseEther("0.0001"), "0x">>
            /\ signedUserOp[p] /= <<>> =>
                  /\ signedUserOp[p][1].signature[1] = "01"
                  /\ signedUserOp[p][1].signature[2] = "000000000000"
                  /\ SameButSignature(signedUserOp[p][1], userOp[p][1])
            /\ sentOp[p] /= <<>> => sentOp[p][1].nonce = ToHex(0)

\* a first operation of an undeployed wallet, signed and sent
C22_Witness ==
    \E p \in TwoSlots :
        /\ call[p].usecase = "executeUserOperation"
        /\ local[p].deployed = <<FALSE>>
        /\ observed[p].nonce = <<0>>
        /\ sentOp[p] /= <<>>
        /\ pc[p] = "resolved"

\* ---------------------------------------------------------------- C23
\* C23: every numeric field of every operation sent to the paymaster or
\* the bundler is a hexadecimal number with at least one digit and no
\* leading zero.
C23_HexQuantities ==
    \A p \in TwoSlots :
        \A request \in {sponsorRequest[p], sentOp[p]} :
            request /= <<>> =>
                \A h \in {request[1].nonce, request[1].callGasLimit,
                          request[1].verificationGasLimit,
                          request[1].preVerificationGas,
                          request[1].maxFeePerGas,
                          request[1].maxPriorityFeePerGas} :
                    Len(h) >= 1 /\ (Len(h) > 1 => h[1] /= 0)

\* C23 for eth_sendUserOperation alone: the numeric fields of a submitted
\* operation are hexadecimal numbers with a digit and no leading zero.
C23_SubmittedHexQuantities ==
    \A p \in TwoSlots :
        sentOp[p] /= <<>> =>
            \A h \in {sentOp[p][1].nonce, sentOp[p][1].callGasLimit,
                      sentOp[p][1].verificationGasLimit,
                      sentOp[p][1].preVerificationGas,
                      sentOp[p][1].maxFeePerGas,
                      sentOp[p][1].maxPriorityFeePerGas} :
                Len(h) >= 1 /\ (Len(h) > 1 => h[1] /= 0)

\* the builder's operation, submitted after its numbers were converted
C23_Witness ==
    \E p \in TwoSlots :
        /\ call[p].usecase = "executeUserOperation"
        /\ sentOp[p] /= <<>>
        /\ userOp[p][1].callGasLimit > 15
        /\ pc[p] = "resolved"

C27_ExactAllocationSucceeds ==
    [][LET c == coilCall'
           reaches(role, distributed, allocation) ==
               /\ c.sender \in coil.roles[role]
               /\ ~coil.paused
               /\ c.to # ZeroAddress
               /\ c.amount # 0
               /\ distributed + c.amount = allocation
       IN /\ c.fn = "distributeOrgs"
             /\ reaches("ORGS_DISTRIBUTOR_ROLE", coil.orgsDistributed, ORGS_ALLOCATION)
             => c.result = "ok"
          /\ c.fn = "distributeGovernance"
             /\ reaches("MINTER_ROLE", coil.governanceDistributed, GOVERNANCE_ALLOCATION)
             => c.result = "ok"]_vars

\* C27: in every reachable state welcomeBonusDistributed <= 300,000,000
\* tokens, orgsDistributed <= 200,000,000 tokens and governanceDistributed
\* <= 500,000,000 tokens.  A distribution that passes the checks before the
\* allocation check and would exceed its allocation reverts with the
\* allocation's reason and changes nothing; one that reaches the allocation
\* exactly succeeds when the mint keeps the total supply within the cap.
C27_AllocationsBounded ==
    [][LET c == coilCall'
           valid(role) ==
               /\ c.sender \in coil.roles[role]
               /\ ~coil.paused
               /\ c.to # ZeroAddress
               /\ c.amount # 0
           settled(distributed, allocation, reason) ==
               /\ distributed + c.amount > allocation =>
                    c.result = reason /\ coil' = coil
               /\ distributed + c.amount = allocation
                  /\ coil.totalSupply + c.amount <= Cap =>
                    c.result = "ok" /\ coil'.totalSupply = coil.totalSupply + c.amount
       IN /\ WELCOME_BONUS_ALLOCATION = 300000000
          /\ ORGS_ALLOCATION = 200000000
          /\ GOVERNANCE_ALLOCATION = 500000000
          /\ coil.welcomeBonusDistributed <= WELCOME_BONUS_ALLOCATION
          /\ coil'.welcomeBonusDistributed <= WELCOME_BONUS_ALLOCATION
          /\ coil.orgsDistributed <= ORGS_ALLOCATION
          /\ coil'.orgsDistributed <= ORGS_ALLOCATION
          /\ coil.governanceDistributed <= GOVERNANCE_ALLOCATION
          /\ coil'.governanceDistributed <= GOVERNANCE_ALLOCATION
          /\ c.fn = "distributeWelcomeBonus" /\ ~coil.paused
             /\ ~coil.hasReceivedWelcomeBonus[c.sender]
             /\ coil.welcomeBonusDistributed + WELCOME_BONUS_AMOUNT
                  > WELCOME_BONUS_ALLOCATION
             => c.result = "Welcome bonus allocation exceeded" /\ coil' = coil
          /\ c.fn = "distributeOrgs" /\ valid("ORGS_DISTRIBUTOR_ROLE")
             => /\ settled(coil.orgsDistributed, ORGS_ALLOCATION,
                           "Orgs allocation exceeded")
                /\ c.result = "ok" =>
                     coil'.orgsDistributed = coil.orgsDistributed + c.amount
          /\ c.fn = "distributeGovernance" /\ valid("MINTER_ROLE")
             => /\ settled(coil.governanceDistributed, GOVERNANCE_ALLOCATION,
                           "Governance allocation exceeded")
                /\ c.result = "ok" =>
                     coil'.governanceDistributed = coil.governanceDistributed + c.amount]_vars

\* the orgs allocation was distributed whole, and one token more was refused
C27_Witness ==
    /\ coilCall.fn = "distributeOrgs"
    /\ coilCall.amount = 1
    /\ coilCall.result = "Orgs allocation exceeded"
    /\ coil.orgsDistributed = ORGS_ALLOCATION
    /\ coil.balances["user1"] = ORGS_ALLOCATION

C31_BuilderNeverSigns ==
    \A p \in TwoSlots :
        call[p].usecase = "executeUserOperation" =>
            /\ userOp[p] /= <<>> =>
                  /\ userOp[p][1].signature = EmptyBytes
                  /\ userOp[p][1].paymasterAndData = EmptyBytes
            /\ pc[p] \in {"getSmartWalletAddress", "isWalletDeployed", "getNonce",
                          "getGasPrices", "estimate", "getUserOpHash",
                          "signChallenge"} =>
                  /\ prompts[p] = 0
                  /\ signedUserOp[p] = <<>>
            /\ prompts[p] > 0 =>
                  /\ hashedOp[p] = userOp[p]
                  /\ Count(history[p], "signChallenge") = prompts[p]
            /\ signedUserOp[p] /= <<>> => prompts[p] = 1

\* buildUserOperation has returned an operation with estimated gas
C31_Witness ==
    \E p \in TwoSlots :
        /\ call[p].usecase = "executeUserOperation"
        /\ pc[p] = "getUserOpHash"
        /\ observed[p].gasPath = "estimated"
        /\ userOp[p] /= <<>>
        /\ userOp[p][1].signature = EmptyBytes
        /\ prompts[p] = 0

\* ---------------------------------------------------------------- C32
\* C32 (as stated): every operation submitted with non-empty initCode has
\* as sender the wallet address derived from the public key inside that
\* initCode.
C32_SenderOfInitCodeKey ==
    \A p \in TwoSlots :
        (sentOp[p] /= <<>> /\ sentOp[p][1].initCode /= EmptyBytes) =>
            sentOp[p][1].sender = GetSmartWalletAddress(sentOp[p][1].initCode[3])

\* C32: an operation submitted with non-empty initCode by deployWallet,
\* deployWalletAndClaimWelcomeBonus or executeUserOperation has as sender
\* the address derived from the key inside its initCode; one submitted by
\* sendTokens has the caller's walletAddress as sender and the caller's
\* publicKey inside its initCode, whatever the two are.
C32_SenderAsSupplied ==
    \A p \in TwoSlots :
        (sentOp[p] /= <<>> /\ sentOp[p][1].initCode /= EmptyBytes) =>
            /\ sentOp[p][1].initCode = GenerateInitCode(call[p].publicKey)
            /\ call[p].usecase /= "sendTokens" =>
                 sentOp[p][1].sender = GetSmartWalletAddress(call[p].publicKey)
            /\ call[p].usecase = "sendTokens" =>
                 sentOp[p][1].sender = call[p].walletAddress

\* sendTokens submitted an operation with initCode for an undeployed wallet
C32_Witness ==
    \E p \in TwoSlots :
        /\ call[p].usecase = "sendTokens"
        /\ sentOp[p] /= <<>>
        /\ sentOp[p][1].initCode /= EmptyBytes
        /\ sentOp[p][1].sender = GetSmartWalletAddress(call[p].publicKey)

\* ---------------------------------------------------------------- C33
\* C33: a poll attempt whose balance read or transfer read throws counts as
\* an unconfirmed attempt: it has taken one of the 20 attempts, the poll
\* goes on to its wait with the confirming overlay up and no success toast,
\* and nothing is dispatched to the token slice.
C33_ThrowIsUnconfirmed ==
    [][\A scene \in Scenes :
         LET balanceReadThrew ==
                 /\ attempts'[scene] = attempts[scene] + 1
                 /\ lastRead'[scene] = NoData
             transferReadThrew ==
                 /\ pollPc[scene] = "getTransfers"
                 /\ pollPc'[scene] /= "done"
         IN /\ balanceReadThrew =>
                 /\ attempts'[scene] <= MaxAttempts
                 /\ pollPc'[scene] = "wait"
                 /\ dispatched'[scene] = dispatched[scene]
                 /\ isConfirming'[scene] = isConfirming[scene]
                 /\ showSuccessToast'[scene] = showSuccessToast[scene]
            /\ transferReadThrew =>
                 /\ attempts'[scene] = attempts[scene]
                 /\ attempts[scene] >= 1
                 /\ pollPc'[scene] = "wait"
                 /\ dispatched'[scene] = dispatched[scene]
                 /\ isConfirming'[scene] = isConfirming[scene]
                 /\ showSuccessToast'[scene] = showSuccessToast[scene]
            /\ pollPc'[scene] = "wait" =>
                 isConfirming'[scene] /\ ~showSuccessToast'[scene]]_vars

\* the transfer read of the attempt that saw the expected balance threw,
\* and the poll waits for its next attempt with nothing dispatched
C33_Witness ==
    \E scene \in Scenes :
        /\ pollPc[scene] = "wait"
        /\ lastRead[scene] /= NoData
        /\ BalanceUpdated(lastRead[scene], expectedNewBalance[scene])
        /\ attempts[scene] = firstSeen[scene]
        /\ dispatched[scene] = 0
        /\ isConfirming[scene]

\* ---------------------------------------------------------------- C37
\* C37 (as stated): whenever the token is not paused, the caller has not
\* received the bonus and welcomeBonusDistributed + 101 tokens is within the
\* welcome-bonus allocation, distributeWelcomeBonus succeeds, whatever was
\* redeemed before.
C37_BonusAlwaysAvailable ==
    [][(/\ coilCall'.fn = "distributeWelcomeBonus"
        /\ ~coil.paused
        /\ ~coil.hasReceivedWelcomeBonus[coilCall'.sender]
        /\ coil.welcomeBonusDistributed + WELCOME_BONUS_AMOUNT
             <= WELCOME_BONUS_ALLOCATION)
       => coilCall'.result = "ok"]_vars

\* C37: under the same conditions distributeWelcomeBonus succeeds when the
\* mint keeps the total supply within the cap, as it does while the supply
\* is the sum of the three distribution counters; otherwise it reverts with
\* ERC20ExceededCap and changes nothing.
C37_BonusAvailableWithinCap ==
    [][(/\ coilCall'.fn = "distributeWelcomeBonus"
        /\ ~coil.paused
        /\ ~coil.hasReceivedWelcomeBonus[coilCall'.sender]
        /\ coil.welcomeBonusDistributed + WELCOME_BONUS_AMOUNT
             <= WELCOME_BONUS_ALLOCATION)
       => /\ coil.totalSupply + WELCOME_BONUS_AMOUNT <= Cap
             => coilCall'.result = "ok"
          /\ coil.totalSupply = coil.welcomeBonusDistributed + coil.orgsDistributed
                                  + coil.governanceDistributed
             => coilCall'.result = "ok"
          /\ coil.totalSupply + WELCOME_BONUS_AMOUNT > Cap
             => coilCall'.result = "ERC20ExceededCap" /\ coil' = coil
          /\ WELCOME_BONUS_ALLOCATION + ORGS_ALLOCATION + GOVERNANCE_ALLOCATION = Cap]_vars

\* a welcome bonus was minted after a coupon redemption
C37_Witness ==
    /\ coilCall.fn = "distributeWelcomeBonus"
    /\ coilCall.result = "ok"
    /\ coil.totalSupply > coil.welcomeBonusDistributed + coil.orgsDistributed
                            + coil.governanceDistributed
    /\ coil.balances[coilCall.sender] >= WELCOME_BONUS_AMOUNT

\* C34 (as claimed): after any sequence of setTransactions,
\* prependTransactions and appendTransactions whose payloads are each free of
\* duplicates, the transactions list never holds two entries with the same
\* transactionHash.
C34_NoDuplicateHashes ==
    \A i, j \in 1..Len(token.transactions) :
        token.transactions[i].transactionHash =
            token.transactions[j].transactionHash => i = j

\* C34: what the reducers keep. setTransactions with a payload free of
\* duplicates leaves the payload as the list; prependTransactions puts the
\* entries of its payload that the list lacks before the existing ones, in
\* the payload's order, keeps the existing entries in their order, adds no
\* second entry of a hash, and changes no balance, loading flag or error;
\* appendTransactions puts its whole payload after the existing entries.
C34_ReducersKeepOrder ==
    [][LET before == token.transactions
           after == token'.transactions
           payload == lastAction'.payload
           hashes(list) == {list[i].transactionHash : i \in 1..Len(list)}
           fresh == SelectSeq(payload,
                              LAMBDA tx : tx.transactionHash \notin hashes(before))
           unique(list) == Cardinality(hashes(list)) = Len(list)
       IN /\ lastAction'.type = "setTransactions" =>
                after = payload /\ unique(after)
          /\ lastAction'.type = "prependTransactions" =>
                /\ after = fresh \o before
                /\ unique(before) => unique(after)
                /\ [token' EXCEPT !.transactions = before,
                                  !.lastFetchedBlock = token.lastFetchedBlock]
                   = token
          /\ lastAction'.type = "appendTransactions" =>
                after = before \o payload]_vars

\* a prepend found one entry of its payload in the list and put the other
\* before the list
C34_Witness ==
    /\ lastAction.type = "prependTransactions"
    /\ Len(lastAction.payload) = 2
    /\ Len(token.transactions) = 2
    /\ token.transactions[1] = lastAction.payload[1]
    /\ token.transactions[2] = lastAction.payload[2]
    /\ token.lastFetchedBlock = lastAction.payload[1].blockNumber
    /\ token.balance = WELCOME_BONUS_AMOUNT
    /\ token.isLoadingTransactions

\* the block number lastFetchedBlock stands for, null below every block
FetchedBlock(state) ==
    IF state.lastFetchedBlock = NoBlock THEN -1 ELSE HexValue(state.lastFetchedBlock)

\* C35 (as claimed): over any interleaving of the initial fetch, the
\* home-screen polling loop and the send-confirmation updates, each new value
\* of lastFetchedBlock is greater than or equal to the previous one.
C35_NeverDecreases == [][FetchedBlock(token') >= FetchedBlock(token)]_vars

\* C35: what the poll keeps. getTransfers is requested only when the current
\* block is above the lastFetchedBlock the poll started with, and then for the
\* range from that block + 1 to the current block; what the poll then
\* dispatches is a prepend of transfers of that range or the current block
\* it read, each above the lastFetchedBlock the poll started with.
C35_PollRange ==
    [][LET poll == home.poll
           started == HexValue(poll.lastFetchedBlock)
       IN /\ home'.poll.pc = "getTransfers" /\ poll.pc /= "getTransfers" =>
                /\ poll.lastFetchedBlock /= NoBlock
                /\ home'.poll.currentBlock > started
                /\ home'.poll.fromBlock = started + 1
                /\ home'.poll.toBlock = home'.poll.currentBlock
                /\ home'.poll.currentBlock = ledger.currentBlock
          /\ poll.pc = "getTransfers" /\ home'.poll.pc = "idle"
             /\ token' /= token =>
                /\ poll.isMounted
                /\ lastAction'.type \in {"prependTransactions", "setLastFetchedBlock"}
                /\ FetchedBlock(token') \in poll.fromBlock..poll.toBlock
                /\ FetchedBlock(token') > started
          /\ lastAction'.type = "setLastFetchedBlock" /\ token' /= token =>
                poll.pc = "getTransfers" /\ home'.poll.pc = "idle"]_vars

\* a poll that started at a lastFetchedBlock found no transfer up to a later
\* block and recorded that block
C35_Witness ==
    /\ lastAction.type = "setLastFetchedBlock"
    /\ home.poll.pc = "idle"
    /\ Len(token.transactions) > 0
    /\ FetchedBlock(token) > HexValue(token.transactions[1].blockNumber)
    /\ FetchedBlock(token) = ledger.currentBlock

\* the awaits of handleCreateWallet, in the order of the handler
CreationOrder ==
    <<"createPasskey", "getWalletAddress", "deployWalletAndClaimWelcomeBonus",
      "timeout", "setPersistData">>

\* C36: wallet creation stores the user record and sets loggedIn = true only
\* after createPasskey, getWalletAddress and deployWalletAndClaimWelcomeBonus
\* have resolved, in that order; when an await of the handler rejects, the
\* storage and the app slice stay as they were; the handler is always at an
\* await while isCreating holds, and once pressed isCreating returns to false.
C36_CreationOrder ==
    /\ [][/\ app'.persisted /= app.persisted =>
                /\ creation'.steps = CreationOrder
                /\ \E p \in OneSlot : /\ owner[p] = "WalletCreationScreen"
                                      /\ pc[p] = "resolved"
                                      /\ call[p].publicKey = creation.publicKey
                /\ app'.persisted =
                      [passkeyRawId |-> RawIdOf(creation.publicKey),
                       walletAddress |-> GetSmartWalletAddress(creation.publicKey)]
                /\ app'.loggedIn /\ app'.user = app'.persisted
          /\ app'.loggedIn /\ ~app.loggedIn =>
                app'.persisted /= NoUser /\ app'.user = app'.persisted
          /\ creation'.alerts > 0 /\ creation.isCreating /\ ~creation'.isCreating
             /\ creation'.steps /= CreationOrder =>
                app' = app
          /\ creation'.isCreating = (creation'.pc /= "idle")
          /\ \A i \in 1..Len(creation'.steps) :
                creation'.steps[i] = CreationOrder[i]]_vars
    /\ (creation.isCreating ~> ~creation.isCreating)

\* a creation whose deployment rejected, then one that went through: the
\* alert was shown, the record is stored and the user is logged in
C36_Witness ==
    /\ creation.steps = CreationOrder
    /\ creation.alerts = 1
    /\ ~creation.isCreating
    /\ creation.route = "/wallet-home"
    /\ \E p \in OneSlot : owner[p] = "WalletCreationScreen" /\ pc[p] = "resolved"
    /\ app.persisted = [passkeyRawId |-> RawIdOf("k1"),
                        walletAddress |-> GetSmartWalletAddress("k1")]
    /\ app.loggedIn

\* C38: in the privacy proxy, after any interleaving of bundler and paymaster
\* requests, recentRequests holds at most 10 entries ordered newest first,
\* totalRequests + errors <= bundlerRequests + paymasterRequests, a request
\* whose body lacks method or params is answered with HTTP 400, and only
\* bodies with both are sent upstream.
C38_ProxyMetrics ==
    LET recent == privacyMetrics.recentRequests
    IN /\ Len(recent) <= 10
       /\ \A i, j \in 1..Len(recent) :
             i < j => recent[i].timestamp >= recent[j].timestamp
       /\ privacyMetrics.totalRequests + privacyMetrics.errors
             <= privacyMetrics.bundlerRequests + privacyMetrics.paymasterRequests
       /\ \A slot \in ProxySlots :
             LET request == proxied.requests[slot]
                 lacks == \/ request.body.method \in {"undefined", ""}
                          \/ request.body.params = "undefined"
             IN request.pc /= "idle" =>
                   /\ lacks => request.pc = "answered" /\ request.status = 400
                   /\ request.status = 400 => lacks
       /\ \A sent \in forwarded :
             /\ sent.body.method \notin {"undefined", ""}
             /\ sent.body.params /= "undefined"

\* eleven requests went through, two of them overlapping with a paymaster
\* request answered first, and a third was answered 400: the oldest entry
\* was dropped
C38_Witness ==
    /\ privacyMetrics.totalRequests = 11
    /\ Len(privacyMetrics.recentRequests) = 10
    /\ privacyMetrics.recentRequests[1].type = "bundler"
    /\ privacyMetrics.recentRequests[2].type = "paymaster"
    /\ privacyMetrics.recentRequests[1].timestamp
          > privacyMetrics.recentRequests[2].timestamp
    /\ privacyMetrics.recentRequests[10].timestamp = 2
    /\ privacyMetrics.bundlerRequests + privacyMetrics.paymasterRequests = 12
    /\ \E slot \in ProxySlots : proxied.requests[slot].status = 400
    /\ Cardinality(forwarded) = 2

====
